---- MODULE Spec2Model ----
(***************************************************************************)
(* Model of the tdx VM image SDK (tools/tdx-vm-sdk/tdx).                   *)
(*                                                                         *)
(* Part 1: the definition model of image.py.  The Image object is one      *)
(* record `img`; every builder method is an operator from (self, args) to  *)
(* a call result [self, ret, err]: the object after the call, the value    *)
(* returned and the exception raised ("none" when the call returns).       *)
(* A user program is a sequence of such calls, with `with img.profile(n):` *)
(* blocks opening and closing around them.                                 *)
(***************************************************************************)
EXTENDS Integers, Sequences, FiniteSets, TLC

VARIABLES img, scopes, call, ret, err, ncalls

\* Part 2: the verified fetcher of fetch.py.  The cache directory, the temp
\* files and the position of every running fetch call.
VARIABLES procs, cache, tmp, pc, req, result, nfetch

\* Part 3: the git fetcher, fetch_git of fetch.py: its call in progress and
\* the git-trees cache directory.
VARIABLES git

\* Part 4: _dirhash of fetch.py: the directory as os.walk lists it, and the
\* digest last computed for it.
VARIABLES directory, digest

\* Part 5: the compiler of compile.py: the Compiler object and the output tree.
VARIABLES compiler, output

\* Part 7: the build verb of cli.py: the invocation in progress.
VARIABLES cli

\* Part 8: to_build_script of build.py: the artifact and what rendering it gave.
VARIABLES build_artifact, build_script

\* Part 9: to_kconfig of kernel.py: the kernel and the .config rendered for it.
VARIABLES tdx_kernel, kconfig

imageVars == <<img, scopes, call, ret, err, ncalls>>

fetchVars == <<procs, cache, tmp, pc, req, result, nfetch>>

gitVars == <<git>>

dirhashVars == <<directory, digest>>

compileVars == <<compiler, output>>

buildVars == <<cli>>

scriptVars == <<build_artifact, build_script>>

kernelVars == <<tdx_kernel, kconfig>>

\* the parts of the state outside the definition model, the fetchers and the
\* compiler
renderVars == <<buildVars, scriptVars, kernelVars>>

vars == <<imageVars, fetchVars, gitVars, dirhashVars, compileVars, renderVars>>

\* the parts of the state a user program of the definition model leaves alone
outsideImage == <<fetchVars, gitVars, dirhashVars, compileVars, renderVars>>

\* the parts of the state the steps of fetch leave alone
outsideFetch == <<imageVars, gitVars, dirhashVars, compileVars, renderVars>>

\* the parts of the state fetch_git leaves alone
outsideGit == <<imageVars, fetchVars, dirhashVars, compileVars, renderVars>>

\* the parts of the state _dirhash leaves alone
outsideDirhash == <<imageVars, fetchVars, gitVars, compileVars, renderVars>>

\* the parts of the state the compiler leaves alone
outsideCompile == <<imageVars, fetchVars, gitVars, dirhashVars, renderVars>>

\* no fetch is running
FetchIdle ==
    /\ procs = {}
    /\ cache = <<>>
    /\ tmp = <<>>
    /\ pc = <<>>
    /\ req = <<>>
    /\ result = <<>>
    /\ nfetch = <<>>

\* no fetch_git is running
GitIdle == git = <<>>

\* no directory is being hashed
DirhashIdle == directory = <<>> /\ digest = <<>>

\* no compiler exists
CompileIdle == compiler = <<>> /\ output = <<>>

\* the parts of the state the build verb leaves alone
outsideBuild ==
    <<imageVars, fetchVars, gitVars, dirhashVars, compileVars, scriptVars, kernelVars>>

\* the parts of the state to_build_script leaves alone
outsideScript ==
    <<imageVars, fetchVars, gitVars, dirhashVars, compileVars, buildVars, kernelVars>>

\* the parts of the state to_kconfig leaves alone
outsideKernel ==
    <<imageVars, fetchVars, gitVars, dirhashVars, compileVars, buildVars, scriptVars>>

\* no build verb is running
BuildIdle == cli = <<>>

\* no artifact is being rendered
ScriptIdle == build_artifact = <<>> /\ build_script = <<>>

\* no kernel is being rendered
KernelIdle == tdx_kernel = <<>> /\ kconfig = <<>>

\* neither the build verb nor a renderer is running
RenderIdle == BuildIdle /\ ScriptIdle /\ KernelIdle

(***************************************************************************)
(* Bounds of the exploration                                               *)
(***************************************************************************)
\* number of builder calls (profile entries included) a program makes
MaxCalls == 3
\* nesting depth of `with img.profile(...)` blocks in a program
MaxDepth == 2

(***************************************************************************)
(* Values                                                                  *)
(***************************************************************************)
\* Python None, where the other values of the field are strings
None == "<None>"

\* exception kinds raised by the definition model; "none": the call returned
NoError == "none"
MissingContent == "ValueError"

\* profile names a program uses in `with img.profile(name)`
ProfileNames == {"", "dev"}
\* arguments a program passes to resolve(profile=...)
ResolveArgs == {None, "", "dev", "prod"}

KindsOfOverlay == {"packages", "services", "files", "run_commands"}

Partition(mountpoint, fs, size, readonly) ==
    [mountpoint |-> mountpoint, fs |-> fs, size |-> size, readonly |-> readonly]

EncryptionConfig(type, key_source, cipher, key_size) ==
    [type |-> type, key_source |-> key_source, cipher |-> cipher, key_size |-> key_size]

NetworkConfig(interfaces, vsock, firewall_rules) ==
    [interfaces |-> interfaces, vsock |-> vsock, firewall_rules |-> firewall_rules]

SSHConfig(enabled, key_delivery, restrictions) ==
    [enabled |-> enabled, key_delivery |-> key_delivery, restrictions |-> restrictions]

FileEntry(dest, src, content) == [dest |-> dest, src |-> src, content |-> content]

TemplateEntry(src, dest, tvars) == [src |-> src, dest |-> dest, vars |-> tvars]

SkeletonEntry(dest, src, content) == [dest |-> dest, src |-> src, content |-> content]

RunCommand(command, script, phase) ==
    [command |-> command, script |-> script, phase |-> phase]

UserEntry(name, system, home, shell, groups, uid) ==
    [name |-> name, system |-> system, home |-> home, shell |-> shell,
     groups |-> groups, uid |-> uid]

SecretEntry(name, description, dest, owner, mode) ==
    [name |-> name, description |-> description, dest |-> dest,
     owner |-> owner, mode |-> mode]

Service(name, exec_start, after, requires, restart, user, extra_unit) ==
    [name |-> name, exec_start |-> exec_start, after |-> after,
     requires |-> requires, wants |-> <<>>, restart |-> restart, user |-> user,
     group |-> None, working_directory |-> None, extra_unit |-> extra_unit]

\* Profile.__init__: a fresh overlay, every list empty
Profile(name) ==
    [name |-> name, packages |-> <<>>, services |-> <<>>, files |-> <<>>,
     run_commands |-> <<>>, overrides |-> [k \in {} |-> None]]

\* Python `x or default` on a list argument: None and [] both select default
OrDefault(x, default) == IF x = <<>> THEN default ELSE x

\* Image.__init__
NewImage(name, base) ==
    [name |-> name, base |-> base, kernel |-> "Kernel.tdx()",
     init |-> "systemd", default_target |-> "minimal.target",
     firmware |-> "ovmf", secure_boot |-> FALSE,
     locale |-> None, docs |-> FALSE, cloud |-> None,
     attestation_backend |-> None,
     _partitions |-> <<Partition("/", "ext4", "2G", FALSE)>>,
     _encryption |-> <<>>,
     _network |-> NetworkConfig(<<"virtio-net">>, TRUE, <<>>),
     _ssh |-> SSHConfig(FALSE, "http",
                        <<"no-port-forwarding", "no-agent-forwarding">>),
     _packages |-> <<>>, _builds |-> <<>>, _services |-> <<>>,
     _files |-> <<>>, _templates |-> <<>>, _skeleton |-> <<>>,
     _run_commands |-> <<>>, _users |-> <<>>, _secrets |-> <<>>,
     _secret_delivery |-> "ssh",
     _secret_delivery_config |-> [k \in {} |-> None],
     _profiles |-> [n \in {} |-> Profile(n)],
     _active_profile |-> None]

\* the value a builder method returns
RetNone == [type |-> "NoneType"]

Returns(self, value) == [self |-> self, ret |-> value, err |-> NoError]

Raises(self, error) == [self |-> self, ret |-> RetNone, err |-> error]

(***************************************************************************)
(* Builder methods of Image                                                *)
(***************************************************************************)
\* Image.partitions: replaces the whole list
partitions(self, parts) ==
    Returns([self EXCEPT !._partitions = parts], RetNone)

\* Image.encryption
encryption(self, type, key_source, cipher, key_size) ==
    Returns([self EXCEPT !._encryption =
                 <<EncryptionConfig(type, key_source, cipher, key_size)>>],
            RetNone)

\* Image.network
network(self, interfaces, vsock, firewall_rules) ==
    Returns([self EXCEPT !._network =
                 NetworkConfig(OrDefault(interfaces, <<"virtio-net">>), vsock,
                               OrDefault(firewall_rules, <<>>))],
            RetNone)

\* Image.ssh had it been profile-aware: inside a scope the configuration goes
\* to the overlay's overrides
ssh_as_override(self, enabled, key_delivery, restrictions) ==
    LET cfg == SSHConfig(enabled, key_delivery,
                         OrDefault(restrictions,
                                   <<"no-port-forwarding", "no-agent-forwarding">>))
    IN  IF self._active_profile # None
        THEN Returns([self EXCEPT !._profiles[self._active_profile].overrides =
                          [k \in DOMAIN @ \cup {"ssh"} |->
                              IF k = "ssh" THEN cfg ELSE @[k]]], RetNone)
        ELSE Returns([self EXCEPT !._ssh = cfg], RetNone)

\* Image.ssh
ssh(self, enabled, key_delivery, restrictions) ==
    Returns([self EXCEPT !._ssh =
                 SSHConfig(enabled, key_delivery,
                           OrDefault(restrictions,
                                     <<"no-port-forwarding", "no-agent-forwarding">>))],
            RetNone)

\* Image.install: target = self._active_profile or self
install(self, packages) ==
    IF self._active_profile # None
    THEN Returns([self EXCEPT !._profiles[self._active_profile].packages =
                      @ \o packages], RetNone)
    ELSE Returns([self EXCEPT !._packages = @ \o packages], RetNone)

\* Image.user
user(self, name, system, home, shell, groups, uid) ==
    Returns([self EXCEPT !._users =
                 Append(@, UserEntry(name, system, home, shell, groups, uid))],
            RetNone)

\* Image.secret
secret(self, name, description, dest, owner, mode) ==
    Returns([self EXCEPT !._secrets =
                 Append(@, SecretEntry(name, description, dest, owner, mode))],
            RetNone)

\* Image.service
service(self, name, exec, after, requires, restart, usr, extra_unit) ==
    LET svc == Service(name, exec, after, requires, restart, usr, extra_unit)
    IN  IF self._active_profile # None
        THEN Returns([self EXCEPT !._profiles[self._active_profile].services =
                          Append(@, svc)], RetNone)
        ELSE Returns([self EXCEPT !._services = Append(@, svc)], RetNone)

\* Image.file without its src/content check
file_unchecked(self, dest, src, content) ==
    LET entry == FileEntry(dest, src, content)
    IN  IF self._active_profile # None
        THEN Returns([self EXCEPT !._profiles[self._active_profile].files =
                          Append(@, entry)], RetNone)
        ELSE Returns([self EXCEPT !._files = Append(@, entry)], RetNone)

\* Image.file
file(self, dest, src, content) ==
    IF src = None /\ content = None
    THEN Raises(self, MissingContent)
    ELSE LET entry == FileEntry(dest, src, content)
         IN  IF self._active_profile # None
             THEN Returns([self EXCEPT !._profiles[self._active_profile].files =
                               Append(@, entry)], RetNone)
             ELSE Returns([self EXCEPT !._files = Append(@, entry)], RetNone)

\* Image.template
template(self, src, dest, tvars) ==
    Returns([self EXCEPT !._templates = Append(@, TemplateEntry(src, dest, tvars))],
            RetNone)

\* Image.skeleton
skeleton(self, dest, src, content) ==
    IF src = None /\ content = None
    THEN Raises(self, MissingContent)
    ELSE Returns([self EXCEPT !._skeleton =
                      Append(@, SkeletonEntry(dest, src, content))], RetNone)

\* Image._append_run ignoring the active profile, as the *_script methods do
_append_run_base_only(self, cmd) ==
    Returns([self EXCEPT !._run_commands = Append(@, cmd)], RetNone)

\* Image._append_run: append a run command, respecting the active profile
_append_run(self, cmd) ==
    IF self._active_profile # None
    THEN Returns([self EXCEPT !._profiles[self._active_profile].run_commands =
                      Append(@, cmd)], RetNone)
    ELSE Returns([self EXCEPT !._run_commands = Append(@, cmd)], RetNone)

\* Image.sync
sync(self, command) == _append_run(self, RunCommand(command, None, "sync"))

\* Image.sync_script
sync_script(self, path) ==
    Returns([self EXCEPT !._run_commands =
                 Append(@, RunCommand(None, path, "sync"))], RetNone)

\* Image.prepare
prepare(self, command) == _append_run(self, RunCommand(command, None, "prepare"))

\* Image.prepare_script
prepare_script(self, path) ==
    Returns([self EXCEPT !._run_commands =
                 Append(@, RunCommand(None, path, "prepare"))], RetNone)

\* Image.run
run(self, command) == _append_run(self, RunCommand(command, None, "postinst"))

\* Image.run_script
run_script(self, path) ==
    Returns([self EXCEPT !._run_commands =
                 Append(@, RunCommand(None, path, "postinst"))], RetNone)

\* Image.finalize
finalize(self, command) == _append_run(self, RunCommand(command, None, "finalize"))

\* Image.finalize_script
finalize_script(self, path) ==
    Returns([self EXCEPT !._run_commands =
                 Append(@, RunCommand(None, path, "finalize"))], RetNone)

\* Image.postoutput
postoutput(self, command) ==
    _append_run(self, RunCommand(command, None, "postoutput"))

\* Image.postoutput_script
postoutput_script(self, path) ==
    Returns([self EXCEPT !._run_commands =
                 Append(@, RunCommand(None, path, "postoutput"))], RetNone)

\* Image.clean
clean(self, command) == _append_run(self, RunCommand(command, None, "clean"))

\* Image.clean_script
clean_script(self, path) ==
    Returns([self EXCEPT !._run_commands =
                 Append(@, RunCommand(None, path, "clean"))], RetNone)

\* Image.on_boot
on_boot(self, command) ==
    Returns([self EXCEPT !._run_commands =
                 Append(@, RunCommand(command, None, "boot"))], RetNone)

\* Image.profile up to its yield: a fresh Profile is stored under the name
\* and becomes the active profile
profile_enter(self, name) ==
    Returns([self EXCEPT
                 !._profiles = [n \in DOMAIN @ \cup {name} |->
                                   IF n = name THEN Profile(name) ELSE @[n]],
                 !._active_profile = name],
            [type |-> "Profile", name |-> name])

\* Image.profile after its yield without try/finally: an exception in the
\* with block skips the clearing
profile_exit_no_finally(self, raised) ==
    IF raised
    THEN Returns(self, RetNone)
    ELSE Returns([self EXCEPT !._active_profile = None], RetNone)

\* Image.profile after its yield: the finally clause, run when the with
\* block completes and when it raises
profile_exit(self, raised) ==
    Returns([self EXCEPT !._active_profile = None], RetNone)

\* ResolvedImage as resolve builds it from the base
ResolvedImage(self) ==
    [type |-> "ResolvedImage",
     name |-> self.name, base |-> self.base, kernel |-> self.kernel,
     init |-> self.init, default_target |-> self.default_target,
     firmware |-> self.firmware, secure_boot |-> self.secure_boot,
     locale |-> self.locale, docs |-> self.docs, cloud |-> self.cloud,
     attestation_backend |-> self.attestation_backend,
     partitions |-> self._partitions, encryption |-> self._encryption,
     network |-> self._network, ssh |-> self._ssh,
     packages |-> self._packages, builds |-> self._builds,
     services |-> self._services, files |-> self._files,
     templates |-> self._templates, skeleton |-> self._skeleton,
     run_commands |-> self._run_commands, users |-> self._users,
     secrets |-> self._secrets, secret_delivery |-> self._secret_delivery,
     secret_delivery_config |-> self._secret_delivery_config]

\* for k, v in p.overrides.items(): setattr(resolved, k, v)
ApplyOverrides(resolved, overrides) ==
    [k \in DOMAIN resolved \cup DOMAIN overrides |->
        IF k \in DOMAIN overrides THEN overrides[k] ELSE resolved[k]]

\* Image.resolve handing self._packages itself to the result instead of
\* list(self._packages): extending the result extends the base list
resolve_aliased(self, profile) ==
    LET resolved == ResolvedImage(self)
    IN  IF profile # None /\ profile # "" /\ profile \in DOMAIN self._profiles
        THEN LET p == self._profiles[profile]
             IN  Returns([self EXCEPT !._packages = @ \o p.packages],
                         ApplyOverrides(
                             [resolved EXCEPT
                                 !.packages = @ \o p.packages,
                                 !.services = @ \o p.services,
                                 !.files = @ \o p.files,
                                 !.run_commands = @ \o p.run_commands],
                             p.overrides))
        ELSE Returns(self, resolved)

\* Image.resolve: the lists of the result are copies, self is not written
resolve(self, profile) ==
    LET resolved == ResolvedImage(self)
    IN  IF profile # None /\ profile # "" /\ profile \in DOMAIN self._profiles
        THEN LET p == self._profiles[profile]
             IN  Returns(self,
                         ApplyOverrides(
                             [resolved EXCEPT
                                 !.packages = @ \o p.packages,
                                 !.services = @ \o p.services,
                                 !.files = @ \o p.files,
                                 !.run_commands = @ \o p.run_commands],
                             p.overrides))
        ELSE Returns(self, resolved)

(***************************************************************************)
(* User programs: sequences of builder calls                               *)
(***************************************************************************)
\* arguments the explored programs pass
InstallArgs == {<<"ca-certificates">>, <<"strace", "gdb">>}

SourceArgs == {[src |-> None, content |-> None],
               [src |-> "./motd", content |-> None],
               [src |-> None, content |-> "hello"]}

SkeletonArgs == {[src |-> None, content |-> None],
                 [src |-> None, content |-> "nameserver 1.1.1.1"]}

PartitionsArgs == {<<Partition("/", "ext4", "2G", FALSE),
                     Partition("/var", "ext4", "2G", FALSE)>>,
                   <<Partition("/var", "ext4", "2G", FALSE)>>}

DefaultRestrictions == <<"no-port-forwarding", "no-agent-forwarding">>

NoVars == [k \in {} |-> None]

\* the call a step makes: the method, the list of the configuration it is
\* documented to write, the records its arguments describe, and its profile
\* argument
Call(op, kind, recs, arg) == [op |-> op, kind |-> kind, recs |-> recs, arg |-> arg]

\* a builder call: r is the method's result, c the call made
Mutate(r, c) ==
    /\ ncalls' = ncalls + 1
    /\ img' = r.self
    /\ ret' = r.ret
    /\ err' = r.err
    /\ call' = c
    /\ UNCHANGED scopes
    /\ UNCHANGED outsideImage

Init ==
    /\ img = NewImage("my-prover", "debian/bookworm")
    /\ scopes = <<>>
    /\ call = Call("__init__", "", <<>>, None)
    /\ ret = RetNone
    /\ err = NoError
    /\ ncalls = 0
    /\ FetchIdle
    /\ GitIdle
    /\ DirhashIdle
    /\ CompileIdle
    /\ RenderIdle

Partitions ==
    \E parts \in PartitionsArgs :
        /\ ncalls < MaxCalls
        /\ Mutate(partitions(img, parts), Call("partitions", "partitions", parts, None))

Encryption ==
    /\ ncalls < MaxCalls
    /\ Mutate(encryption(img, "luks2", "tpm", "aes-xts-plain64", 512),
              Call("encryption", "encryption",
                   <<EncryptionConfig("luks2", "tpm", "aes-xts-plain64", 512)>>, None))

Network ==
    \E ifs \in {<<>>, <<"eth0">>} :
        /\ ncalls < MaxCalls
        /\ Mutate(network(img, ifs, TRUE, <<>>),
                  Call("network", "network",
                       <<NetworkConfig(IF ifs = <<>> THEN <<"virtio-net">> ELSE ifs,
                                       TRUE, <<>>)>>, None))

Ssh ==
    \E enabled \in BOOLEAN :
        /\ ncalls < MaxCalls
        /\ Mutate(ssh(img, enabled, "http", <<>>),
                  Call("ssh", "ssh",
                       <<SSHConfig(enabled, "http", DefaultRestrictions)>>, None))

Install ==
    \E pkgs \in InstallArgs :
        /\ ncalls < MaxCalls
        /\ Mutate(install(img, pkgs), Call("install", "packages", pkgs, None))

User ==
    /\ ncalls < MaxCalls
    /\ Mutate(user(img, "prover", TRUE, None, "/usr/sbin/nologin", <<>>, None),
              Call("user", "users",
                   <<UserEntry("prover", TRUE, None, "/usr/sbin/nologin", <<>>, None)>>,
                   None))

Secret ==
    /\ ncalls < MaxCalls
    /\ Mutate(secret(img, "API_KEY", "", "/etc/api/key", "api", "0400"),
              Call("secret", "secrets",
                   <<SecretEntry("API_KEY", "", "/etc/api/key", "api", "0400")>>, None))

ServiceCall ==
    /\ ncalls < MaxCalls
    /\ Mutate(service(img, "my-prover", "/usr/local/bin/my-prover", <<>>, <<>>,
                      "on-failure", "prover", NoVars),
              Call("service", "services",
                   <<Service("my-prover", "/usr/local/bin/my-prover", <<>>, <<>>,
                             "on-failure", "prover", NoVars)>>, None))

File ==
    \E a \in SourceArgs :
        /\ ncalls < MaxCalls
        /\ Mutate(file(img, "/etc/motd", a.src, a.content),
                  Call("file", "files",
                       <<FileEntry("/etc/motd", a.src, a.content)>>, None))

Template ==
    /\ ncalls < MaxCalls
    /\ Mutate(template(img, "./app.conf.j2", "/etc/app.conf", NoVars),
              Call("template", "templates",
                   <<TemplateEntry("./app.conf.j2", "/etc/app.conf", NoVars)>>, None))

Skeleton ==
    \E a \in SkeletonArgs :
        /\ ncalls < MaxCalls
        /\ Mutate(skeleton(img, "/etc/resolv.conf", a.src, a.content),
                  Call("skeleton", "skeleton",
                       <<SkeletonEntry("/etc/resolv.conf", a.src, a.content)>>, None))

Sync ==
    /\ ncalls < MaxCalls
    /\ Mutate(sync(img, "git submodule update"),
              Call("sync", "run_commands",
                   <<RunCommand("git submodule update", None, "sync")>>, None))

SyncScript ==
    /\ ncalls < MaxCalls
    /\ Mutate(sync_script(img, "./sync.sh"),
              Call("sync_script", "run_commands",
                   <<RunCommand(None, "./sync.sh", "sync")>>, None))

Prepare ==
    /\ ncalls < MaxCalls
    /\ Mutate(prepare(img, "pip install x"),
              Call("prepare", "run_commands",
                   <<RunCommand("pip install x", None, "prepare")>>, None))

PrepareScript ==
    /\ ncalls < MaxCalls
    /\ Mutate(prepare_script(img, "./prepare.sh"),
              Call("prepare_script", "run_commands",
                   <<RunCommand(None, "./prepare.sh", "prepare")>>, None))

Run ==
    /\ ncalls < MaxCalls
    /\ Mutate(run(img, "echo hi"),
              Call("run", "run_commands",
                   <<RunCommand("echo hi", None, "postinst")>>, None))

RunScript ==
    /\ ncalls < MaxCalls
    /\ Mutate(run_script(img, "./harden.sh"),
              Call("run_script", "run_commands",
                   <<RunCommand(None, "./harden.sh", "postinst")>>, None))

Finalize ==
    /\ ncalls < MaxCalls
    /\ Mutate(finalize(img, "du -sh $BUILDROOT"),
              Call("finalize", "run_commands",
                   <<RunCommand("du -sh $BUILDROOT", None, "finalize")>>, None))

FinalizeScript ==
    /\ ncalls < MaxCalls
    /\ Mutate(finalize_script(img, "./finalize.sh"),
              Call("finalize_script", "run_commands",
                   <<RunCommand(None, "./finalize.sh", "finalize")>>, None))

Postoutput ==
    /\ ncalls < MaxCalls
    /\ Mutate(postoutput(img, "sha256sum image.raw"),
              Call("postoutput", "run_commands",
                   <<RunCommand("sha256sum image.raw", None, "postoutput")>>, None))

PostoutputScript ==
    /\ ncalls < MaxCalls
    /\ Mutate(postoutput_script(img, "./sign.sh"),
              Call("postoutput_script", "run_commands",
                   <<RunCommand(None, "./sign.sh", "postoutput")>>, None))

Clean ==
    /\ ncalls < MaxCalls
    /\ Mutate(clean(img, "rm -rf out"),
              Call("clean", "run_commands",
                   <<RunCommand("rm -rf out", None, "clean")>>, None))

CleanScript ==
    /\ ncalls < MaxCalls
    /\ Mutate(clean_script(img, "./clean.sh"),
              Call("clean_script", "run_commands",
                   <<RunCommand(None, "./clean.sh", "clean")>>, None))

OnBoot ==
    /\ ncalls < MaxCalls
    /\ Mutate(on_boot(img, "echo boot"),
              Call("on_boot", "run_commands",
                   <<RunCommand("echo boot", None, "boot")>>, None))

\* `with img.profile(name):` is reached
EnterProfile ==
    \E name \in ProfileNames :
        LET r == profile_enter(img, name)
        IN  /\ Len(scopes) < MaxDepth
            /\ ncalls < MaxCalls
            /\ ncalls' = ncalls + 1
            /\ scopes' = Append(scopes, name)
            /\ img' = r.self
            /\ ret' = r.ret
            /\ err' = r.err
            /\ call' = Call("profile", "", <<>>, name)
            /\ UNCHANGED outsideImage

\* the innermost with block is left, by completing or by an exception
ExitProfile ==
    \E raised \in BOOLEAN :
        LET r == profile_exit(img, raised)
        IN  /\ Len(scopes) > 0
            /\ scopes' = SubSeq(scopes, 1, Len(scopes) - 1)
            /\ img' = r.self
            /\ ret' = r.ret
            /\ err' = r.err
            /\ call' = Call(IF raised THEN "profile_exit_raise" ELSE "profile_exit",
                            "", <<>>, scopes[Len(scopes)])
            /\ UNCHANGED ncalls
            /\ UNCHANGED outsideImage

Resolve ==
    \E p \in ResolveArgs :
        LET r == resolve(img, p)
        IN  /\ img' = r.self
            /\ ret' = r.ret
            /\ err' = r.err
            /\ call' = Call("resolve", "", <<>>, p)
            /\ UNCHANGED <<scopes, ncalls>>
            /\ UNCHANGED outsideImage

Next ==
    \/ Partitions \/ Encryption \/ Network \/ Ssh
    \/ Install \/ User \/ Secret \/ ServiceCall \/ File \/ Template \/ Skeleton
    \/ Sync \/ SyncScript \/ Prepare \/ PrepareScript \/ Run \/ RunScript
    \/ Finalize \/ FinalizeScript \/ Postoutput \/ PostoutputScript
    \/ Clean \/ CleanScript \/ OnBoot
    \/ EnterProfile \/ ExitProfile \/ Resolve

Spec == Init /\ [][Next]_vars

(***************************************************************************)
(* Properties of the definition model                                      *)
(***************************************************************************)
\* resolve(p) on the current Image
Resolved(p) == resolve(img, p).ret

IsPrefix(s, t) == Len(s) <= Len(t) /\ SubSeq(t, 1, Len(s)) = s

InSeq(x, s) == \E i \in 1..Len(s) : s[i] = x

\* the base list of the Image that holds a kind of record
BaseField(kind) ==
    CASE kind = "packages" -> "_packages"
      [] kind = "services" -> "_services"
      [] kind = "files" -> "_files"
      [] kind = "run_commands" -> "_run_commands"
      [] kind = "templates" -> "_templates"
      [] kind = "users" -> "_users"
      [] kind = "secrets" -> "_secrets"
      [] kind = "skeleton" -> "_skeleton"
      [] kind = "partitions" -> "_partitions"
      [] kind = "encryption" -> "_encryption"
      [] kind = "network" -> "_network"
      [] kind = "ssh" -> "_ssh"

ProfileAwareOps == {"install", "service", "file", "run", "sync", "prepare",
                    "finalize", "postoutput", "clean"}

ScriptOps == {"sync_script", "prepare_script", "run_script", "finalize_script",
              "postoutput_script", "clean_script", "on_boot"}

AppendingBaseOnlyOps == {"template", "user", "secret", "skeleton"}

SettingBaseOnlyOps == {"encryption", "network", "ssh"}

BaseOnlyOps == AppendingBaseOnlyOps \cup SettingBaseOnlyOps \cup {"partitions"}

ExitOps == {"profile_exit", "profile_exit_raise"}

\* C1: for every profile name p defined on the Image, resolve(p) holds, for
\* packages, services, files and run_commands, the base list of resolve(None)
\* followed by the list of p's overlay.
C1_ResolveIsBaseThenOverlay ==
    \A p \in DOMAIN img._profiles : \A k \in KindsOfOverlay :
        Resolved(p)[k] = Resolved(None)[k] \o img._profiles[p][k]

\* C2: resolve with a non-empty name that is no key of the profiles map fails
\* with UnknownProfile and returns no ResolvedImage.
C2_UnknownProfileFails ==
    (/\ call.op = "resolve"
     /\ call.arg \notin {None, ""}
     /\ call.arg \notin DOMAIN img._profiles)
        => (err = "UnknownProfile" /\ ret = RetNone)

\* C3: entering a profile scope while the active-profile pointer is set is
\* rejected with DuplicateProfileScope and leaves the pointer and the profiles
\* map as they were (so nothing is recorded into the inner name).
C3_NestedEnterRejected ==
    [][(call'.op = "profile" /\ img._active_profile # None)
          => /\ err' = "DuplicateProfileScope"
             /\ img'._active_profile = img._active_profile
             /\ img'._profiles = img._profiles]_vars

\* C4: re-entering a profile name after its scope was left never discards what
\* the earlier scope recorded: what resolve(n) returned before the entry is a
\* prefix of what it returns after it.
C4_ReentryAccumulates ==
    [][(/\ call'.op = "profile"
        /\ img._active_profile = None
        /\ call'.arg \in DOMAIN img._profiles)
          => \A k \in KindsOfOverlay :
                 IsPrefix(resolve(img, call'.arg).ret[k],
                          resolve(img', call'.arg).ret[k])]_vars

\* C5: leaving a profile scope, normally or by an exception, clears the
\* active-profile pointer; the pointer then stays cleared until a scope is
\* entered, and meanwhile install/service/file/run calls extend the base list
\* and leave every overlay unchanged.
C5_PointerClearedOnEveryExit ==
    [][/\ call'.op \in ExitOps => img'._active_profile = None
       /\ (img._active_profile = None /\ call'.op # "profile")
             => img'._active_profile = None
       /\ (/\ call.op \in ExitOps
           /\ call'.op \in ProfileAwareOps
           /\ err' = NoError)
             => /\ img'._profiles = img._profiles
                /\ img'[BaseField(call'.kind)] =
                       img[BaseField(call'.kind)] \o call'.recs]_vars

\* C5 witness: a populated scope was left by an exception and the pointer is
\* cleared.
C5_Witness ==
    /\ call.op = "profile_exit_raise"
    /\ img._active_profile = None
    /\ img._profiles[call.arg].packages # <<>>

\* C6: with a scope active, install, service, file, run, sync, prepare,
\* finalize, postoutput and clean append their records to the active profile's
\* list and leave the base and the other overlays unchanged; with no scope
\* active they append to the base list and leave every overlay unchanged.
C6_MutatorsFollowActiveProfile ==
    [][(call'.op \in ProfileAwareOps /\ err' = NoError)
          => IF img._active_profile # None
             THEN img' = [img EXCEPT
                             !._profiles[img._active_profile][call'.kind] =
                                 @ \o call'.recs]
             ELSE img' = [img EXCEPT ![BaseField(call'.kind)] = @ \o call'.recs]]_vars

\* C6 witness: run was called inside scope dev after the base got packages.
C6_Witness ==
    /\ call.op = "run"
    /\ img._active_profile = "dev"
    /\ img._profiles["dev"].run_commands = call.recs
    /\ img._packages # <<>>
    /\ img._run_commands = <<>>

\* C7: the *_script methods and on_boot, called inside a profile scope p,
\* record the run-command into p's overlay and not into the base, so
\* resolve(None).run_commands is unchanged by the call.
C7_ScriptMethodsFollowActiveProfile ==
    [][(call'.op \in ScriptOps /\ img._active_profile # None)
          => /\ resolve(img', None).ret.run_commands =
                    resolve(img, None).ret.run_commands
             /\ img'._profiles[img._active_profile].run_commands =
                    img._profiles[img._active_profile].run_commands
                        \o call'.recs]_vars

C9_ResolveIsPure ==
    [][call'.op = "resolve"
          => /\ img' = img
             /\ err' = NoError
             /\ ret' = resolve(img', call'.arg).ret
             /\ (call = call' => ret' = ret)]_vars

\* C9 witness: resolve("dev") returned base packages followed by overlay
\* packages.
C9_Witness ==
    /\ call.op = "resolve"
    /\ call.arg = "dev"
    /\ img._packages # <<>>
    /\ "dev" \in DOMAIN img._profiles
    /\ img._profiles["dev"].packages # <<>>
    /\ ret.packages = img._packages \o img._profiles["dev"].packages

\* C10: file and skeleton called with neither src nor content raise
\* MissingContent and leave the Image unchanged.
C10_MissingContentAppendsNothing ==
    [][(/\ call'.op \in {"file", "skeleton"}
        /\ call'.recs[1].src = None
        /\ call'.recs[1].content = None)
          => (err' = MissingContent /\ img' = img)]_vars

\* C10 witness: file failed inside an active scope.
C10_Witness ==
    /\ call.op = "file"
    /\ err = MissingContent
    /\ img._active_profile = "dev"
    /\ img._profiles["dev"].files = <<>>

(***************************************************************************)
(* Part 2: the verified fetcher (fetch.py)                                 *)
(*                                                                         *)
(* fetch(url, sha256) is a sequence of file-system steps on the shared     *)
(* cache directory; several SDK invocations may run it at once.  A file is *)
(* its bytes and the identity of the call that created it.                 *)
(***************************************************************************)
\* fetch calls one invocation makes
MaxFetch == 2

\* hashlib.sha256 as _sha256_file uses it: a digest that identifies the bytes
Sha256(bytes) == <<"sha256", bytes>>

\* bodies a server returns or a damaged cache file holds
Bodies == {"", "tampered"}

\* a declared hash that no body hashes to ("0000...0000")
ZeroHash == Sha256("<no such body>")

\* hashes the explored calls declare
Hashes == {Sha256(""), ZeroHash}

Urls == {"https://example.test/x.tar"}

Procs == {"p1", "p2"}

\* exceptions of fetch
HashMismatch == "ValueError: Hash mismatch"
FetchFailed == "RuntimeError: Failed to download"
FileNotFound == "FileNotFoundError"

FileOf(body, creator) == [body |-> body, by |-> creator]

\* the arguments of the running call and how far it went: whether it removed a
\* damaged cache file (line 105) and whether it ran curl (line 112)
NoReq == [url |-> "", sha256 |-> ZeroHash, evicted |-> FALSE, downloaded |-> FALSE]

NoResult == [status |-> "none", path |-> <<>>, error |-> NoError, downloaded |-> FALSE]

\* `return cached`: the path is the cache directory entry named by the hash
Returned(path, downloaded) ==
    [status |-> "returned", path |-> path, error |-> NoError,
     downloaded |-> downloaded]

Raised(error, downloaded) ==
    [status |-> "raised", path |-> <<>>, error |-> error, downloaded |-> downloaded]

\* fetch, lines 101-102: the cached file is returned without a hash check
cached_matches_unverified(entry, sha256) == TRUE

\* fetch, lines 101-102: actual = _sha256_file(cached); actual == sha256
cached_matches(entry, sha256) == Sha256(entry.body) = sha256

\* fetch, lines 121-122: the downloaded file is accepted without a hash check
tmp_matches_unverified(entry, sha256) == TRUE

\* fetch, lines 121-122: actual = _sha256_file(tmp_path); actual == sha256
tmp_matches(entry, sha256) == Sha256(entry.body) = sha256

\* fetch, line 105 left out: the damaged file stays where it is
unlink_cached_skipped(dir, sha256) == dir

\* fetch, line 105: cached.unlink()
unlink_cached(dir, sha256) == [dir EXCEPT ![sha256] = <<>>]

\* fetch, line 132, had the loser kept an existing cache file
rename_keeping_existing(dir, entry, sha256) ==
    IF dir[sha256] # <<>> THEN dir ELSE [dir EXCEPT ![sha256] = <<entry>>]

\* fetch, line 132: tmp_path.rename(cached) replaces whatever is at the path
rename(dir, entry, sha256) == [dir EXCEPT ![sha256] = <<entry>>]

\* the fetch call of p ends
Finish(p, outcome) ==
    /\ pc' = [pc EXCEPT ![p] = "idle"]
    /\ result' = [result EXCEPT ![p] = outcome]

\* fetch is called (lines 97-98)
FetchCall ==
    \E p \in procs :
        /\ pc[p] = "idle"
        /\ nfetch[p] < MaxFetch
        /\ \E u \in Urls, h \in Hashes :
               req' = [req EXCEPT ![p] = [url |-> u, sha256 |-> h,
                                          evicted |-> FALSE, downloaded |-> FALSE]]
        /\ nfetch' = [nfetch EXCEPT ![p] = @ + 1]
        /\ pc' = [pc EXCEPT ![p] = "exists"]
        /\ result' = [result EXCEPT ![p] = NoResult]
        /\ UNCHANGED <<procs, cache, tmp, outsideFetch>>

\* line 99: cached.exists()
FetchExists ==
    \E p \in procs :
        /\ pc[p] = "exists"
        /\ pc' = [pc EXCEPT ![p] =
                     IF cache[req[p].sha256] # <<>> THEN "verify_cached" ELSE "mktemp"]
        /\ UNCHANGED <<procs, cache, tmp, req, result, nfetch, outsideFetch>>

\* lines 101-103: hash the cached file, return it on a match
FetchVerifyCached ==
    \E p \in procs :
        /\ pc[p] = "verify_cached"
        /\ IF cache[req[p].sha256] = <<>>
           THEN Finish(p, Raised(FileNotFound, req[p].downloaded))
           ELSE IF cached_matches(cache[req[p].sha256][1], req[p].sha256)
           THEN Finish(p, Returned(req[p].sha256, req[p].downloaded))
           ELSE /\ pc' = [pc EXCEPT ![p] = "unlink_cached"]
                /\ UNCHANGED result
        /\ UNCHANGED <<procs, cache, tmp, req, nfetch, outsideFetch>>

\* line 105: the damaged cache file is removed
FetchUnlinkCached ==
    \E p \in procs :
        /\ pc[p] = "unlink_cached"
        /\ IF cache[req[p].sha256] = <<>>
           THEN /\ Finish(p, Raised(FileNotFound, req[p].downloaded))
                /\ UNCHANGED <<cache, req>>
           ELSE /\ cache' = unlink_cached(cache, req[p].sha256)
                /\ req' = [req EXCEPT ![p].evicted = TRUE]
                /\ pc' = [pc EXCEPT ![p] = "mktemp"]
                /\ UNCHANGED result
        /\ UNCHANGED <<procs, tmp, nfetch, outsideFetch>>

\* lines 108-109: an empty temp file beside the cache entry
FetchMktemp ==
    \E p \in procs :
        /\ pc[p] = "mktemp"
        /\ tmp' = [tmp EXCEPT ![p] = <<FileOf("", <<p, nfetch[p]>>)>>]
        /\ pc' = [pc EXCEPT ![p] = "download"]
        /\ UNCHANGED <<procs, cache, req, result, nfetch, outsideFetch>>

\* lines 112-119: curl writes the temp file, or fails and the file is removed
FetchDownload ==
    \E p \in procs :
        /\ pc[p] = "download"
        /\ req' = [req EXCEPT ![p].downloaded = TRUE]
        /\ \/ \E body \in Bodies :
                 /\ tmp' = [tmp EXCEPT ![p] = <<FileOf(body, <<p, nfetch[p]>>)>>]
                 /\ pc' = [pc EXCEPT ![p] = "verify_tmp"]
                 /\ UNCHANGED result
           \/ /\ tmp' = [tmp EXCEPT ![p] = <<>>]
              /\ Finish(p, Raised(FetchFailed, TRUE))
        /\ UNCHANGED <<procs, cache, nfetch, outsideFetch>>

\* lines 121-130: hash the download, remove it and raise on a mismatch
FetchVerifyTmp ==
    \E p \in procs :
        /\ pc[p] = "verify_tmp"
        /\ IF tmp_matches(tmp[p][1], req[p].sha256)
           THEN /\ pc' = [pc EXCEPT ![p] = "rename"]
                /\ UNCHANGED <<tmp, result>>
           ELSE /\ tmp' = [tmp EXCEPT ![p] = <<>>]
                /\ Finish(p, Raised(HashMismatch, req[p].downloaded))
        /\ UNCHANGED <<procs, cache, req, nfetch, outsideFetch>>

\* lines 132-133: the temp file is renamed to the cache path and returned
FetchRename ==
    \E p \in procs :
        /\ pc[p] = "rename"
        /\ cache' = rename(cache, tmp[p][1], req[p].sha256)
        /\ tmp' = [tmp EXCEPT ![p] = <<>>]
        /\ Finish(p, Returned(req[p].sha256, req[p].downloaded))
        /\ UNCHANGED <<procs, req, nfetch, outsideFetch>>

\* the Image of part 1, untouched by the fetcher
ImageIdle ==
    /\ img = NewImage("my-prover", "debian/bookworm")
    /\ scopes = <<>>
    /\ call = Call("__init__", "", <<>>, None)
    /\ ret = RetNone
    /\ err = NoError
    /\ ncalls = 0

\* what the cache path of a hash may hold when the invocations start: nothing,
\* or a file left by an earlier run, intact or damaged
InitialFiles == {<<>>} \cup {<<FileOf(b, <<"earlier", 0>>)>> : b \in Bodies}

InitFetch(ps) ==
    /\ procs = ps
    /\ cache \in [Hashes -> InitialFiles]
    /\ tmp = [p \in ps |-> <<>>]
    /\ pc = [p \in ps |-> "idle"]
    /\ req = [p \in ps |-> NoReq]
    /\ result = [p \in ps |-> NoResult]
    /\ nfetch = [p \in ps |-> 0]
    /\ ImageIdle
    /\ GitIdle
    /\ DirhashIdle
    /\ CompileIdle
    /\ RenderIdle

InitFetchConcurrent == InitFetch(Procs)

InitFetchSeq == InitFetch({"p1"})

NextFetch ==
    \/ FetchCall
    \/ FetchExists
    \/ FetchVerifyCached
    \/ FetchUnlinkCached
    \/ FetchMktemp
    \/ FetchDownload
    \/ FetchVerifyTmp
    \/ FetchRename

\* concurrent invocations sharing one cache directory
SpecFetch == InitFetchConcurrent /\ [][NextFetch]_vars

\* one invocation at a time
SpecFetchSeq == InitFetchSeq /\ [][NextFetch]_vars

\* the cache path of hash h holds a file whose SHA-256 is h
Verified(dir, h) == dir[h] # <<>> /\ Sha256(dir[h][1].body) = h

\* the step is one of p's fetch call
StepOf(p) == pc'[p] # pc[p]

\* the step ends a fetch call of p
Ends(p) == pc[p] # "idle" /\ pc'[p] = "idle"

\* C11: once fetch(u, h) has returned, the returned path is fetch/<h> and the
\* file there has SHA-256 h, and stays so while calls come one after another;
\* a call that finds that verified file returns the same path without
\* downloading anything and without touching the cache.
C11_ReturnedFileIsVerified ==
    [][\A p \in procs :
          /\ (result'[p].status = "returned")
                => /\ Verified(cache', result'[p].path)
                   /\ Ends(p) => result'[p].path = req[p].sha256
          /\ (StepOf(p) /\ pc[p] \in {"exists", "verify_cached"}
                /\ Verified(cache, req[p].sha256))
                => /\ cache' = cache
                   /\ tmp' = tmp
                   /\ \/ pc'[p] = "verify_cached"
                      \/ result'[p] = Returned(req[p].sha256, FALSE)]_vars

\* a second call of fetch returned the file the first call downloaded, without
\* downloading again
C11_Witness ==
    /\ nfetch["p1"] = 2
    /\ result["p1"] = Returned(Sha256(""), FALSE)
    /\ cache[Sha256("")] = <<FileOf("", <<"p1", 1>>)>>

\* C12: when the downloaded bytes do not hash to the declared sha256, the call
\* fails with the hash-mismatch error, its temp file is removed and the cache
\* is left as it was; and no step of any call, alone or concurrent, puts at
\* fetch/<h> a file whose SHA-256 is not h.
C12_MismatchInstallsNothing ==
    [][/\ \A p \in procs :
             (StepOf(p) /\ pc[p] = "verify_tmp"
                /\ Sha256(tmp[p][1].body) # req[p].sha256)
                => /\ result'[p] = Raised(HashMismatch, TRUE)
                   /\ pc'[p] = "idle"
                   /\ tmp'[p] = <<>>
                   /\ cache' = cache
       /\ \A h \in Hashes :
             (cache'[h] # cache[h] /\ cache'[h] # <<>>) => Verified(cache', h)]_vars

\* a call failed on a tampered download while the cache path of its hash stayed
\* empty, and another call installed a file
C12_Witness ==
    \E p \in procs, q \in procs :
        /\ result[p] = Raised(HashMismatch, TRUE)
        /\ tmp[p] = <<>>
        /\ cache[req[p].sha256] = <<>>
        /\ Verified(cache, req[q].sha256)
        /\ cache[req[q].sha256][1].by = <<q, 1>>

\* p is on the download path of fetch (lines 108-133)
Downloading(p) == pc[p] \in {"mktemp", "download", "verify_tmp", "rename"}

\* C13: a call that finds at fetch/<h> a file whose SHA-256 is not h deletes
\* that file and downloads again; the damaged file is never what a call
\* returns; and the call ends either returning with a verified file at
\* fetch/<h> or failing with no file there.
C13_DamagedCacheIsReplaced ==
    [][\A p \in procs :
          LET h == req[p].sha256 IN
          /\ (StepOf(p) /\ pc[p] = "verify_cached" /\ ~Verified(cache, h))
                => pc'[p] = "unlink_cached" /\ result'[p].status = "none"
          /\ (StepOf(p) /\ pc[p] = "unlink_cached")
                => cache'[h] = <<>> /\ pc'[p] = "mktemp"
          /\ Downloading(p)' => cache'[req'[p].sha256] = <<>>
          /\ Ends(p)
                => \/ result'[p].status = "returned" /\ Verified(cache', h)
                   \/ result'[p].status = "raised" /\ cache'[h] = <<>>]_vars

\* a call removed a damaged cache file and returned a fresh verified download
C13_Witness ==
    /\ req["p1"].evicted
    /\ result["p1"] = Returned(req["p1"].sha256, TRUE)
    /\ cache[req["p1"].sha256] = <<FileOf("", <<"p1", nfetch["p1"]>>)>>

\* C14: when concurrent calls fetch the same hash, the file one call's rename
\* has installed at fetch/<h> is neither replaced nor removed by any other
\* call: the others find it and use it.
C14_OneRenameInstalls ==
    [][\A h \in Hashes :
          (Verified(cache, h) /\ cache[h][1].by[1] \in procs)
              => cache'[h] = cache[h]]_vars

(***************************************************************************)
(* Part 4: _dirhash (fetch.py)                                             *)
(*                                                                         *)
(* A directory is what os.walk lists, in the order it lists it: files with *)
(* their path parts, bytes and metadata, and directories without files.    *)
(* Text is a sequence of characters so that joining, sorting and           *)
(* concatenating are computed as the code computes them.                   *)
(***************************************************************************)
\* entries in the directory
MaxEntries == 4

\* code points of the characters used in paths and contents
Code ==
    [c \in {"NUL", ".", "/", "a", "b", "c", "e", "g", "i", "t", "x"} |->
        CASE c = "NUL" -> 0
          [] c = "." -> 46
          [] c = "/" -> 47
          [] c = "a" -> 97
          [] c = "b" -> 98
          [] c = "c" -> 99
          [] c = "e" -> 101
          [] c = "g" -> 103
          [] c = "i" -> 105
          [] c = "t" -> 116
          [] c = "x" -> 120]

\* b"\0"
NUL == <<"NUL">>

\* paths of files, as Path.parts: a/x, a.b, a/.gitx
FilePaths ==
    { <<<<"a">>, <<"x">>>>,
      <<<<"a", ".", "b">>>>,
      <<<<"a">>, <<".", "g", "i", "t", "x">>>> }

\* paths of directories that hold no file: e
EmptyDirPaths == { <<<<"e">>>> }

\* file contents
Contents == { <<"a">>, <<"b", "c">> }

\* metadata of a file: modification time
Mtimes == {0, 1}

WalkFile(parts, content, mtime) ==
    [kind |-> "file", parts |-> parts, content |-> content, mtime |-> mtime]

WalkDir(parts) ==
    [kind |-> "dir", parts |-> parts, content |-> <<>>, mtime |-> 0]

\* str(rel): the parts joined by "/"
RECURSIVE PathStr(_)
PathStr(parts) ==
    IF Len(parts) = 1 THEN parts[1]
    ELSE parts[1] \o <<"/">> \o PathStr(Tail(parts))

\* p.startswith(".git")
startswith_git(part) ==
    Len(part) >= 4 /\ SubSeq(part, 1, 4) = <<".", "g", "i", "t">>

\* lines 61-63, had only a directory named exactly .git been skipped
skipped_only_dot_git(parts) ==
    \E i \in 1..Len(parts) : parts[i] = <<".", "g", "i", "t">> /\ i < Len(parts)

\* lines 61-63: any(p.startswith(".git") for p in parts)
skipped(parts) == \E i \in 1..Len(parts) : startswith_git(parts[i])

\* the order of Python str comparison: by code point, a prefix first
RECURSIVE StrLess(_, _)
StrLess(s1, s2) ==
    IF s1 = <<>> THEN s2 # <<>>
    ELSE IF s2 = <<>> THEN FALSE
    ELSE IF Code[Head(s1)] # Code[Head(s2)] THEN Code[Head(s1)] < Code[Head(s2)]
    ELSE StrLess(Tail(s1), Tail(s2))

\* line 66 left out: the files stay in walk order
sort_skipped(files) == files

\* line 66: files.sort()
sort(files) == SortSeq(files, StrLess)

\* lines 56-64: the relative paths of the files os.walk lists, skipped ones
\* left out, in walk order
RECURSIVE walk_files(_)
walk_files(listing) ==
    IF listing = <<>> THEN <<>>
    ELSE LET entry == Head(listing) IN
         IF entry.kind = "file" /\ ~skipped(entry.parts)
         THEN <<PathStr(entry.parts)>> \o walk_files(Tail(listing))
         ELSE walk_files(Tail(listing))

\* line 71: (directory / relpath).read_bytes()
read_bytes(listing, relpath) ==
    LET i == CHOOSE i \in 1..Len(listing) :
                 listing[i].kind = "file" /\ PathStr(listing[i].parts) = relpath
    IN listing[i].content

\* lines 43-78
_dirhash(listing) ==
    LET files == sort(walk_files(listing))
        inner(relpath) == Sha256(relpath \o NUL \o read_bytes(listing, relpath))
    IN Sha256([i \in 1..Len(files) |-> inner(files[i])])

\* the entry is put in the listing so that it is listed at position i
InsertAt(listing, i, entry) ==
    SubSeq(listing, 1, i - 1) \o <<entry>> \o SubSeq(listing, i, Len(listing))

Listed(listing) == {listing[i].parts : i \in 1..Len(listing)}

\* a file is created somewhere in the tree (also one under .git)
CreateFile ==
    \E parts \in FilePaths \ Listed(directory), content \in Contents,
       i \in 1..Len(directory) + 1 :
        /\ Len(directory) < MaxEntries
        /\ directory' = InsertAt(directory, i, WalkFile(parts, content, 0))
        /\ UNCHANGED <<digest, outsideDirhash>>

\* a file gets other bytes
WriteFile ==
    \E i \in 1..Len(directory), content \in Contents :
        /\ directory[i].kind = "file"
        /\ directory[i].content # content
        /\ directory' = [directory EXCEPT ![i].content = content]
        /\ UNCHANGED <<digest, outsideDirhash>>

\* the metadata of a file changes
Touch ==
    \E i \in 1..Len(directory), mtime \in Mtimes :
        /\ directory[i].kind = "file"
        /\ directory[i].mtime # mtime
        /\ directory' = [directory EXCEPT ![i].mtime = mtime]
        /\ UNCHANGED <<digest, outsideDirhash>>

\* a directory without files is created
Mkdir ==
    \E parts \in EmptyDirPaths \ Listed(directory), i \in 1..Len(directory) + 1 :
        /\ Len(directory) < MaxEntries
        /\ directory' = InsertAt(directory, i, WalkDir(parts))
        /\ UNCHANGED <<digest, outsideDirhash>>

\* the file system lists the same tree in another order
Reorder ==
    \E i \in 1..Len(directory) - 1 :
        /\ directory' = [directory EXCEPT ![i] = directory[i + 1],
                                          ![i + 1] = directory[i]]
        /\ UNCHANGED <<digest, outsideDirhash>>

\* _dirhash(directory) is called
Dirhash ==
    /\ digest' = <<_dirhash(directory)>>
    /\ UNCHANGED <<directory, outsideDirhash>>

\* the directory before it is hashed: empty, or holding one file
InitDirhash ==
    /\ directory \in {<<>>} \cup
           {<<WalkFile(parts, content, 0)>> : parts \in FilePaths, content \in Contents}
    /\ digest = <<>>
    /\ ImageIdle
    /\ FetchIdle
    /\ GitIdle
    /\ CompileIdle
    /\ RenderIdle

NextDirhash ==
    \/ CreateFile
    \/ WriteFile
    \/ Touch
    \/ Mkdir
    \/ Reorder
    \/ Dirhash

SpecDirhash == InitDirhash /\ [][NextDirhash]_vars

\* the (relative path, contents) pairs of the files none of whose path parts
\* begins with ".git"
Relevant(listing) ==
    { <<PathStr(listing[i].parts), listing[i].content>> :
        i \in { j \in 1..Len(listing) :
                  /\ listing[j].kind = "file"
                  /\ \A k \in 1..Len(listing[j].parts) :
                         ~startswith_git(listing[j].parts[k]) } }

\* SHA-256 over the concatenation, in ascending path order, of
\* sha256(path || 0x00 || contents) of the pairs
TreeHash(pairs) ==
    LET n == Cardinality(pairs)
        ordered == CHOOSE f \in [1..n -> pairs] :
                       \A i \in 1..n, j \in 1..n : i < j => StrLess(f[i][1], f[j][1])
    IN Sha256([i \in 1..n |-> Sha256(ordered[i][1] \o NUL \o ordered[i][2])])

MaxGit == 2

\* trees a commit of the upstream repository, or a cache directory, may hold:
\* a/x, a/x with other bytes, a/x beside a .git entry, and nothing
Worktrees ==
    { <<WalkFile(<<<<"a">>, <<"x">>>>, <<"a">>, 0)>>,
      <<WalkFile(<<<<"a">>, <<"x">>>>, <<"b", "c">>, 0)>>,
      <<WalkFile(<<<<"a">>, <<".", "g", "i", "t", "x">>>>, <<"a">>, 0),
        WalkFile(<<<<"a">>, <<"x">>>>, <<"a">>, 1)>>,
      <<>> }

\* the sha256 arguments explored: the dirhash of a/x with either contents
TreeHashes ==
    { _dirhash(<<WalkFile(<<<<"a">>, <<"x">>>>, content, 0)>>) : content \in Contents }

\* tag= arguments: none given, a tag of the repository, a tag it does not have
Tags == {None, "v1", "nosuch"}

\* exceptions of fetch_git besides the hash mismatch
MissingRef == "ValueError: fetch_git() requires tag=, branch=, or rev="
UnresolvedRef == "ValueError: Could not resolve ref"
GitFailed == "CalledProcessError"
DirectoryNotEmpty == "OSError: Directory not empty"

\* a directory with its listing and the call that put it there
TreeOf(listing, creator) == [listing |-> listing, by |-> creator]

\* lines 200-201: the cached tree is returned without a hash check
cached_tree_matches_unverified(entry, sha256) == TRUE

\* lines 200-201: actual = _dirhash(checkout_cache); actual == sha256
cached_tree_matches(entry, sha256) == _dirhash(entry.listing) = sha256

\* lines 219-220: the checkout is accepted without a hash check
checkout_matches_unverified(entry, sha256) == TRUE

\* lines 219-220: actual = _dirhash(tmp_path); actual != sha256
checkout_matches(entry, sha256) == _dirhash(entry.listing) = sha256

\* line 230: Path.rename of a directory fails on a directory that has entries
rename_tree_fails(trees, sha256) ==
    trees[sha256] # <<>> /\ trees[sha256][1].listing # <<>>

\* the call moves to the next statement
GitGoto(label) == git' = [git EXCEPT !.pc = label]

\* the call ends; the TemporaryDirectory is removed on the way out
GitFinish(outcome) ==
    git' = [git EXCEPT !.pc = "idle", !.result = outcome, !.tmp = <<>>]

\* lines 162-164: fetch_git is called; ref = rev or tag or branch
GitCall ==
    \E tag \in Tags, sha256 \in TreeHashes :
        /\ git.pc = "idle"
        /\ git.ncalls < MaxGit
        /\ LET started == [git EXCEPT !.ncalls = @ + 1,
                                      !.req = [tag |-> tag, sha256 |-> sha256],
                                      !.result = NoResult]
           IN  IF tag = None
               THEN git' = [started EXCEPT !.result = Raised(MissingRef, FALSE)]
               ELSE git' = [started EXCEPT !.pc = "mirror"]
        /\ UNCHANGED outsideGit

\* lines 173-184: clone or fetch the bare mirror; git may fail
GitMirror ==
    /\ git.pc = "mirror"
    /\ \/ GitGoto("rev_parse")
       \/ GitFinish(Raised(GitFailed, FALSE))
    /\ UNCHANGED outsideGit

\* lines 187-196: rev-parse the ref
GitRevParse ==
    /\ git.pc = "rev_parse"
    /\ IF git.req.tag = "nosuch"
       THEN GitFinish(Raised(UnresolvedRef, FALSE))
       ELSE GitGoto("check_cache")
    /\ UNCHANGED outsideGit

\* lines 198-203: return the cached tree when its dirhash matches
GitCheckCache ==
    /\ git.pc = "check_cache"
    /\ IF /\ git.trees[git.req.sha256] # <<>>
          /\ cached_tree_matches(git.trees[git.req.sha256][1], git.req.sha256)
       THEN GitFinish(Returned(git.req.sha256, FALSE))
       ELSE GitGoto("checkout")
    /\ UNCHANGED outsideGit

\* lines 206-217: shallow clone of the mirror and checkout of the commit into
\* a temp directory; the commit holds whatever upstream put there
GitCheckout ==
    /\ git.pc = "checkout"
    /\ \/ \E listing \in Worktrees :
             git' = [git EXCEPT !.pc = "verify",
                                !.tmp = <<TreeOf(listing, git.ncalls)>>]
       \/ GitFinish(Raised(GitFailed, TRUE))
    /\ UNCHANGED outsideGit

\* lines 219-227: hash the checkout, raise on a mismatch
GitVerify ==
    /\ git.pc = "verify"
    /\ IF checkout_matches(git.tmp[1], git.req.sha256)
       THEN GitGoto("rename")
       ELSE GitFinish(Raised(HashMismatch, TRUE))
    /\ UNCHANGED outsideGit

\* lines 229-232: rename the checkout to git-trees/<sha256> and return it
GitRename ==
    /\ git.pc = "rename"
    /\ IF rename_tree_fails(git.trees, git.req.sha256)
       THEN GitFinish(Raised(DirectoryNotEmpty, TRUE))
       ELSE git' = [git EXCEPT !.pc = "idle",
                               !.trees[git.req.sha256] = git.tmp,
                               !.tmp = <<>>,
                               !.result = Returned(git.req.sha256, TRUE)]
    /\ UNCHANGED outsideGit

\* what git-trees/<h> may hold when the invocation starts: nothing, or a tree
\* left by an earlier run, intact or not
InitialTrees == {<<>>} \cup {<<TreeOf(listing, 0)>> : listing \in Worktrees}

InitGit ==
    /\ \E trees \in [TreeHashes -> InitialTrees] :
           git = [trees |-> trees, tmp |-> <<>>, pc |-> "idle",
                  req |-> [tag |-> None, sha256 |-> ZeroHash],
                  result |-> NoResult, ncalls |-> 0]
    /\ ImageIdle
    /\ FetchIdle
    /\ DirhashIdle
    /\ CompileIdle
    /\ RenderIdle

NextGit ==
    \/ GitCall
    \/ GitMirror
    \/ GitRevParse
    \/ GitCheckCache
    \/ GitCheckout
    \/ GitVerify
    \/ GitRename

SpecGit == InitGit /\ [][NextGit]_vars

\* C15: whenever fetch_git returns, the returned path is git-trees/<sha256> and
\* the directory there has dirhash sha256; when the dirhash of the checked-out
\* tree differs from sha256, the call fails with the hash-mismatch error and
\* creates nothing at git-trees/<sha256>.
C15_GitTreeIsVerified ==
    [][/\ (git'.result.status = "returned" /\ git.pc # "idle")
             => /\ git'.pc = "idle"
                /\ git'.result.path = git.req.sha256
                /\ git'.trees[git.req.sha256] # <<>>
                /\ _dirhash(git'.trees[git.req.sha256][1].listing) = git.req.sha256
       /\ (git.pc = "verify" /\ git' # git
             /\ _dirhash(git.tmp[1].listing) # git.req.sha256)
             => /\ git'.result = Raised(HashMismatch, TRUE)
                /\ git'.pc = "idle"
                /\ git'.trees = git.trees]_vars

\* the first call installed a verified checkout and returned it; the second
\* call, for the other hash, failed on a mismatching tree and left
\* git-trees/<sha256> absent
C15_Witness ==
    /\ git.ncalls = 2
    /\ git.result = Raised(HashMismatch, TRUE)
    /\ git.trees[git.req.sha256] = <<>>
    /\ \E h \in TreeHashes :
           /\ git.trees[h] # <<>>
           /\ git.trees[h][1].by = 1
           /\ _dirhash(git.trees[h][1].listing) = h

(***************************************************************************)
(* Part 5: the compiler (compile.py)                                       *)
(*                                                                         *)
(* MkosiCompiler.compile() maps a ResolvedImage to a tree of files.  The   *)
(* tree is a function from paths to files; a path and a line of text are   *)
(* tuples of the string pieces an f-string puts together; a file is its    *)
(* lines (joined by "\n" when written) and its mode.                       *)
(***************************************************************************)
\* entries declared in the image that is compiled
MaxDecls == 4
\* run-commands among them
MaxCmds == 2
\* runs of the compiler on one output directory
MaxRuns == 2

\* a line that is one literal
L(text) == <<text>>

\* the lines of a text that ends with "\n"
WithNewline(lines) == lines \o <<L("")>>

Digits == <<"0", "1", "2", "3", "4", "5", "6", "7", "8", "9">>

\* the index prefix that ignores the position: every file gets "00"
Fmt02d_constant(i) == <<"0", "0">>

\* f"{i:02d}" for 0 <= i < 100
Fmt02d(i) ==
    <<Digits[(i \div 10) + 1], Digits[(i % 10) + 1]>>

\* repr() of a str without quotes in it
Repr(text) == <<"'", text, "'">>

\* " ".join(items), "\n    ".join(items), ",".join(items)
RECURSIVE Join(_, _)
Join(sep, items) ==
    IF items = <<>> THEN <<>>
    ELSE IF Len(items) = 1 THEN <<items[1]>>
    ELSE <<items[1], sep>> \o Join(sep, Tail(items))

\* Path.write_text: the file at the path gets the lines; a new file is 0644
write_text_appending(tree, path, lines) ==
    [q \in DOMAIN tree \cup {path} |->
        IF q = path
        THEN [lines |-> (IF path \in DOMAIN tree THEN tree[path].lines ELSE <<>>) \o lines,
              mode |-> IF path \in DOMAIN tree THEN tree[path].mode ELSE "0644"]
        ELSE tree[q]]

write_text(tree, path, lines) ==
    [q \in DOMAIN tree \cup {path} |->
        IF q = path
        THEN [lines |-> lines,
              mode |-> IF path \in DOMAIN tree THEN tree[path].mode ELSE "0644"]
        ELSE tree[q]]

\* Path.chmod
chmod(tree, path, mode) == [tree EXCEPT ![path].mode = mode]

\* what a writer hands on: the tree so far and the exception raised, if any
Wrote(tree) == [tree |-> tree, err |-> NoError]

Failed(tree, error) == [tree |-> tree, err |-> error]

UnknownBuilder == "ValueError: Unknown builder"

\* dest.lstrip("/") of the destinations explored
lstrip_slash(dest) ==
    CASE dest = "/etc/motd" -> "etc/motd"
      [] dest = "/etc/app.conf" -> "etc/app.conf"
      [] OTHER -> dest

\* str(Path(dest).parent) of the destinations explored
parent(dest) ==
    CASE dest = "/etc/api/key" -> "/etc/api"
      [] dest = "/run/token" -> "/run"
      [] OTHER -> "."

\* base.split("/", 1) of the bases explored
split_base(base) ==
    CASE base = "debian/bookworm" -> <<"debian", "bookworm">>
      [] base = "ubuntu/noble" -> <<"ubuntu", "noble">>

\* sorted(set(build_deps)) of the build dependencies explored
sorted_set(deps) ==
    LET present == {deps[i] : i \in 1..Len(deps)}
    IN  SelectSeq(<<"gcc", "golang">>, LAMBDA d : d \in present)

\* lines 103-105: build_deps.extend(b.build_deps) for every build
RECURSIVE FoldDeps(_)
FoldDeps(builds) ==
    IF builds = <<>> THEN <<>> ELSE Head(builds).build_deps \o FoldDeps(Tail(builds))

\* lines 70-124
_write_mkosi_conf(r, tree) ==
    LET base == split_base(r.base)
        build_deps == sorted_set(FoldDeps(r.builds))
        content ==
            (IF r.packages # <<>>
             THEN <<<<"Packages=">> \o Join("\n    ", r.packages)>> ELSE <<>>)
            \o (IF ~r.docs THEN <<L("WithDocs=no")>> ELSE <<>>)
            \o <<<<"Locale=", IF r.locale = None THEN "C.UTF-8" ELSE r.locale>>>>
            \o (IF build_deps # <<>>
                THEN <<<<"BuildPackages=">> \o Join("\n    ", build_deps)>> ELSE <<>>)
        lines ==
            <<L("[Distribution]"), <<"Distribution=", base[1]>>, <<"Release=", base[2]>>,
              L(""),
              L("[Output]"), <<"ImageId=", r.name>>, L("Format=disk"), L("")>>
            \o <<L("[Content]")>> \o content \o <<L("")>>
            \o <<L("[Validation]"),
                 <<"SecureBoot=", IF r.secure_boot THEN "yes" ELSE "no">>, L("")>>
    IN  Wrote(write_text(tree, <<"mkosi.conf">>, lines))

\* lines 126-136; Kernel.to_kconfig and Kernel.cmdline are rendered elsewhere
_write_kernel_config(r, tree) ==
    Wrote(write_text(
              write_text(tree, <<"mkosi.kernel/.config">>, <<<<"to_kconfig: ", r.kernel>>>>),
              <<"mkosi.extra/etc/kernel/cmdline">>,
              WithNewline(<<<<"cmdline: ", r.kernel>>>>)))

\* lines 473-488
_partition_type(mountpoint) ==
    CASE mountpoint = "/" -> "root"
      [] mountpoint = "/home" -> "home"
      [] mountpoint = "/srv" -> "srv"
      [] mountpoint = "/var" -> "var"
      [] mountpoint = "/tmp" -> "tmp"
      [] mountpoint = "swap" -> "swap"
      [] mountpoint = "/boot" -> "xbootldr"
      [] mountpoint = "/boot/efi" -> "esp"
      [] OTHER -> "linux-generic"

\* line 171: part.mountpoint.strip("/").replace("/", "-") or "root", of the
\* mount points explored
repart_label(mountpoint) ==
    CASE mountpoint = "/" -> "root"
      [] mountpoint = "/var" -> "var"
      [] mountpoint = "/var/lib" -> "var-lib"

\* line 172: repart_dir / f"{i:02d}-{label}.conf"; i counts from 0
repart_path(i, part) ==
    <<"mkosi.repart/">> \o Fmt02d(i) \o <<"-", repart_label(part.mountpoint), ".conf">>

\* lines 150-168
repart_lines(r, part) ==
    <<L("[Partition]"), <<"Type=", _partition_type(part.mountpoint)>>,
      <<"Format=", part.fs>>, <<"SizeMinBytes=", part.size>>,
      <<"SizeMaxBytes=", part.size>>>>
    \o (IF part.mountpoint # "/" THEN <<<<"MountPoint=", part.mountpoint>>>> ELSE <<>>)
    \o (IF part.readonly THEN <<L("ReadOnly=yes")>> ELSE <<>>)
    \o (IF r.encryption # <<>> /\ part.mountpoint = "/"
        THEN <<<<"Encrypt=", r.encryption[1].type>>>> ELSE <<>>)
    \o <<L("")>>

\* lines 139-173: the loop over enumerate(self.resolved.partitions)
RECURSIVE write_partitions(_, _, _)
write_partitions(r, tree, n) ==
    IF n = 0 THEN tree
    ELSE write_text(write_partitions(r, tree, n - 1),
                    repart_path(n - 1, r.partitions[n]),
                    repart_lines(r, r.partitions[n]))

_write_repart_configs(r, tree) ==
    Wrote(write_partitions(r, tree, Len(r.partitions)))

\* lines 188-212: the apt sources file of the repository at position i
RECURSIVE write_repositories(_, _, _)
write_repositories(r, tree, n) ==
    IF n = 0 THEN tree
    ELSE LET repo == r.repositories[n] IN
         write_text(write_repositories(r, tree, n - 1),
                    <<"mkosi.skeleton/etc/apt/sources.list.d/tdx-repo-">>
                        \o Fmt02d(n - 1) \o <<".sources">>,
                    WithNewline(<<<<"Types: ">> \o Join(" ", repo.types),
                                  <<"URIs: ", repo.url>>,
                                  <<"Suites: ", repo.suite>>,
                                  <<"Components: ">> \o Join(" ", repo.components)>>))

\* lines 175-212
_write_repositories(r, tree) ==
    Wrote(write_repositories(r, tree, Len(r.repositories)))

\* lines 219-226 and 261-269: the entry's content, else a copy of its src
RECURSIVE write_entries(_, _, _)
write_entries(tree, root, entries) ==
    IF entries = <<>> THEN tree
    ELSE LET entry == Head(entries)
             dest == <<root, lstrip_slash(entry.dest)>>
             written ==
                 IF entry.content # None THEN write_text(tree, dest, <<L(entry.content)>>)
                 ELSE IF entry.src # None
                 THEN write_text(tree, dest, <<<<"copy of ", entry.src>>>>)
                 ELSE tree
         IN  write_entries(written, root, Tail(entries))

\* lines 214-226
_write_skeleton(r, tree) == Wrote(write_entries(tree, "mkosi.skeleton/", r.skeleton))

\* build.py, BuildArtifact._env_exports (no env) and _install_deps
script_head(artifact) ==
    <<L("export SOURCE_DATE_EPOCH=0")>>
    \o (IF artifact.build_deps # <<>>
        THEN <<<<"apt-get install -y --no-install-recommends ">>
                 \o Join(" ", artifact.build_deps)>>
        ELSE <<>>)

\* build.py, BuildArtifact._go_script with no env and the default config
_go_script(artifact) ==
    <<<<"# Build: ", artifact.name, " (Go)">>>>
    \o script_head(artifact)
    \o <<L("export GOVERSION=go1.22"),
         <<"cd ">> \o Repr(artifact.src),
         <<"go build -trimpath -ldflags ">> \o Repr("-s -w") \o <<" -o ">>
             \o Repr(artifact.output) \o <<" .">>>>

\* build.py, BuildArtifact._custom_script with the default build_script
_custom_script(artifact) ==
    <<<<"# Build: ", artifact.name, " (custom script)">>>>
    \o script_head(artifact)
    \o <<<<"cd ">> \o Repr(artifact.src), L("make")>>

\* build.py, BuildArtifact._rust_script with the default toolchain and features
_rust_script(artifact) ==
    <<<<"# Build: ", artifact.name, " (Rust)">>>>
    \o script_head(artifact)
    \o <<L("rustup default stable"),
         <<"cd ">> \o Repr(artifact.src),
         L("cargo build --release"),
         <<"cp target/release/", artifact.name, " ">> \o Repr(artifact.output)>>

\* build.py, BuildArtifact._dotnet_script with the default configuration
_dotnet_script(artifact) ==
    <<<<"# Build: ", artifact.name, " (.NET)">>>>
    \o script_head(artifact)
    \o <<<<"cd ">> \o Repr(artifact.src),
         <<"dotnet publish . -c Release -o ">> \o Repr(artifact.output)
             \o <<" --self-contained">>>>

\* build.py, lines 29-34: the keys of generators
KnownBuilders == {"go", "rust", "dotnet", "script"}

\* build.py, lines 27-38: generators.get(self.builder), and ValueError for None
to_build_script(artifact) ==
    IF artifact.builder \notin KnownBuilders THEN Raises(None, UnknownBuilder)
    ELSE IF artifact.builder = "go" THEN Returns(None, _go_script(artifact))
    ELSE IF artifact.builder = "rust" THEN Returns(None, _rust_script(artifact))
    ELSE IF artifact.builder = "dotnet" THEN Returns(None, _dotnet_script(artifact))
    ELSE Returns(None, _custom_script(artifact))

\* line 243: scripts_dir / f"{i:02d}-{artifact.name}.sh"; i counts from 0
build_script_path(i, artifact) ==
    <<"mkosi.build.d/">> \o Fmt02d(i) \o <<"-", artifact.name, ".sh">>

\* lines 241-245: the loop over enumerate(self.resolved.builds), which stops at
\* the first artifact whose builder is unknown
RECURSIVE write_builds(_, _, _)
write_builds(r, tree, n) ==
    IF n = 0 THEN Wrote(tree)
    ELSE LET before == write_builds(r, tree, n - 1)
             artifact == r.builds[n]
             path == build_script_path(n - 1, artifact)
             script == to_build_script(artifact)
         IN  IF before.err # NoError THEN before
             ELSE IF script.err # NoError THEN Failed(before.tree, script.err)
             ELSE Wrote(chmod(write_text(before.tree, path,
                                         <<L("#!/bin/bash"), L("set -euo pipefail"), L("")>>
                                         \o script.ret \o <<L("")>>),
                              path, "0755"))

\* lines 229-245
_write_build_scripts(r, tree) == write_builds(r, tree, Len(r.builds))

\* lines 254-256; Service.to_unit_file is rendered by service.py
RECURSIVE write_units(_, _)
write_units(tree, services) ==
    IF services = <<>> THEN tree
    ELSE write_units(
             write_text(tree,
                        <<"mkosi.extra/etc/systemd/system/", Head(services).name, ".service">>,
                        <<<<"to_unit_file: ", Head(services).name>>>>),
             Tail(services))

\* lines 247-256
_write_service_units(r, tree) == Wrote(write_units(tree, r.services))

\* lines 258-269
_write_files(r, tree) == Wrote(write_entries(tree, "mkosi.extra/", r.files))

\* lines 271-283; the template is read from tmpl.src and rendered
RECURSIVE write_templates(_, _)
write_templates(tree, templates) ==
    IF templates = <<>> THEN tree
    ELSE write_templates(
             write_text(tree, <<"mkosi.extra/", lstrip_slash(Head(templates).dest)>>,
                        <<<<"rendered ", Head(templates).src>>>>),
             Tail(templates))

_write_templates(r, tree) == Wrote(write_templates(tree, r.templates))

\* line 28
_MKOSI_PHASES == <<"sync", "prepare", "postinst", "finalize", "postoutput", "clean">>

\* lines 31-38
_PHASE_TO_MKOSI(phase) ==
    CASE phase = "sync" -> <<"mkosi.sync">>
      [] phase = "prepare" -> <<"mkosi.prepare">>
      [] phase = "postinst" -> <<"mkosi.postinst">>
      [] phase = "finalize" -> <<"mkosi.finalize">>
      [] phase = "postoutput" -> <<"mkosi.postoutput">>
      [] phase = "clean" -> <<"mkosi.clean">>

\* truth value of an optional str
Truthy(text) == text # None /\ text # ""

\* image.py, UserEntry.to_commands; uid is carried as its decimal text
to_commands(u) ==
    LET useradd ==
            <<"useradd">>
            \o (IF u.system THEN <<"-r">> ELSE <<>>)
            \o (IF Truthy(u.home) THEN <<"-m", "-d", u.home>> ELSE <<>>)
            \o <<"-s", u.shell>>
            \o (IF u.uid # None THEN <<"-u", u.uid>> ELSE <<>>)
            \o (IF u.groups # <<>> THEN <<"-G">> \o Join(",", u.groups) ELSE <<>>)
            \o <<u.name>>
    IN  <<<<"id -u ", u.name, " &>/dev/null || ">> \o Join(" ", useradd)>>
        \o (IF Truthy(u.home)
            THEN <<<<"mkdir -p ", u.home>>, <<"chown ", u.name, ":", u.name, " ", u.home>>>>
            ELSE <<>>)

\* service.py, Service.setup_commands
setup_commands(svc) ==
    (IF Truthy(svc.user)
     THEN <<<<"id -u ", svc.user, " &>/dev/null || useradd -r -s /usr/sbin/nologin ",
              svc.user>>>>
     ELSE <<>>)
    \o <<<<"systemctl enable ", svc.name, ".service">>>>

\* the lines of all entries, entry after entry
RECURSIVE Flatten(_, _)
Flatten(Op(_), entries) ==
    IF entries = <<>> THEN <<>> ELSE Op(Head(entries)) \o Flatten(Op, Tail(entries))

\* lines 322-327 and 351-356: the command, else bash <script>, then a blank line
command_lines(cmd) ==
    (IF Truthy(cmd.command) THEN <<L(cmd.command)>>
     ELSE IF Truthy(cmd.script) THEN <<<<"bash ">> \o Repr(cmd.script)>>
     ELSE <<>>)
    \o <<L("")>>

\* lines 316-318: mkdir -p of the parent of a secret that has a dest
secret_lines(sec) ==
    IF Truthy(sec.dest) THEN <<<<"mkdir -p ", parent(sec.dest)>>>> ELSE <<>>

\* lines 291-293: the run-commands of the phase, in the order of the list
phase_commands(r, phase) == SelectSeq(r.run_commands, LAMBDA cmd : cmd.phase = phase)

\* lines 295-296
has_service_setup(r, phase) == phase = "postinst" /\ r.services # <<>>

\* lines 304-320: users, services, secret directories, default target
postinst_preamble(r) ==
    Flatten(to_commands, r.users)
    \o Flatten(setup_commands, r.services)
    \o Flatten(secret_lines, r.secrets)
    \o <<<<"systemctl set-default ", r.default_target>>, L("")>>

\* lines 301-327, had the run-commands been written before the preamble
script_lines_commands_first(r, phase, commands) ==
    <<L("#!/bin/bash"), L("set -euo pipefail"), L("")>>
    \o Flatten(command_lines, commands)
    \o (IF phase = "postinst" THEN postinst_preamble(r) ELSE <<>>)

\* lines 301-327: header, the postinst preamble, the run-commands
script_lines(r, phase, commands) ==
    <<L("#!/bin/bash"), L("set -euo pipefail"), L("")>>
    \o (IF phase = "postinst" THEN postinst_preamble(r) ELSE <<>>)
    \o Flatten(command_lines, commands)

\* lines 290-336: one pass of the loop over _MKOSI_PHASES
write_phase(r, tree, phase) ==
    LET commands == phase_commands(r, phase)
        path == _PHASE_TO_MKOSI(phase)
    IN  IF commands = <<>> /\ ~has_service_setup(r, phase) THEN tree
        ELSE chmod(write_text(tree, path, script_lines(r, phase, commands)), path, "0755")

RECURSIVE write_phases(_, _, _)
write_phases(r, tree, n) ==
    IF n = 0 THEN tree
    ELSE write_phase(r, write_phases(r, tree, n - 1), _MKOSI_PHASES[n])

\* lines 285-336
_write_lifecycle_scripts(r, tree) == Wrote(write_phases(r, tree, Len(_MKOSI_PHASES)))

\* lines 344-346, had only the first boot command been kept
boot_commands_first_only(r) ==
    LET all == SelectSeq(r.run_commands, LAMBDA cmd : cmd.phase = "boot")
    IN  IF all = <<>> THEN <<>> ELSE <<Head(all)>>

\* lines 344-346
boot_commands(r) == SelectSeq(r.run_commands, LAMBDA cmd : cmd.phase = "boot")

OnBootPath == <<"mkosi.extra/usr/local/lib/tdx/on-boot.sh">>

BootUnitPath == <<"mkosi.extra/etc/systemd/system/tdx-boot-init.service">>

\* lines 338-386
_write_boot_scripts(r, tree) ==
    LET commands == boot_commands(r)
        script == <<L("#!/bin/bash"), L("set -euo pipefail"), L("")>>
                  \o Flatten(command_lines, commands)
        unit == <<L("[Unit]"), L("Description=TDX boot-time initialization"),
                  L("DefaultDependencies=no"), L("Before=sysinit.target"),
                  L("ConditionPathExists=/usr/local/lib/tdx/on-boot.sh"), L(""),
                  L("[Service]"), L("Type=oneshot"),
                  L("ExecStart=/usr/local/lib/tdx/on-boot.sh"),
                  L("RemainAfterExit=yes"), L(""),
                  L("[Install]"), L("WantedBy=sysinit.target")>>
    IN  IF commands = <<>> THEN Wrote(tree)
        ELSE Wrote(write_text(chmod(write_text(tree, OnBootPath, script), OnBootPath, "0755"),
                              BootUnitPath, WithNewline(unit)))

\* line 421: one manifest line for a secret
manifest_line_with_description(sec) ==
    <<<<sec.name, "\t", sec.dest, "\t", sec.owner, "\t", sec.mode, "\t", sec.description>>>>

manifest_line(sec) == <<<<sec.name, "\t", sec.dest, "\t", sec.owner, "\t", sec.mode>>>>

\* lines 444-453
delivery_exec(r) ==
    IF r.secret_delivery = "ssh" THEN "/usr/local/lib/tdx/receive-secrets.sh --ssh"
    ELSE IF r.secret_delivery = "vsock" THEN "/usr/local/lib/tdx/receive-secrets.sh --vsock"
    ELSE IF "fetch_script" \in DOMAIN r.secret_delivery_config
            /\ r.secret_delivery_config["fetch_script"] # ""
    THEN r.secret_delivery_config["fetch_script"]
    ELSE "/usr/local/lib/tdx/receive-secrets.sh"

\* lines 389-470
_write_secrets_delivery(r, tree) ==
    LET units == "mkosi.extra/etc/systemd/system/"
        scripts == "mkosi.extra/usr/local/lib/tdx/"
        target == <<L("[Unit]"), L("Description=All secrets have been delivered"), L(""),
                    L("[Install]"), L("WantedBy=multi-user.target")>>
        receiver == <<L("#!/bin/bash"), L("set -euo pipefail"), L(""),
                      L("# Wait for secrets and place them at their declared paths."),
                      L("# Generated by tdx - do not edit."), L(""),
                      L("MANIFEST=\"/usr/local/lib/tdx/secrets.manifest\""), L(""),
                      L("place_secret() {"),
                      L("    local name=\"$1\" dest=\"$2\" owner=\"$3\" mode=\"$4\" value=\"$5\""),
                      L("    mkdir -p \"$(dirname \"$dest\")\""),
                      L("    printf \"%s\" \"$value\" > \"$dest\""),
                      L("    chown \"$owner\" \"$dest\""),
                      L("    chmod \"$mode\" \"$dest\""),
                      L("}"), L("")>>
        delivery == <<L("[Unit]"), L("Description=TDX secret delivery"),
                      L("Before=secrets-ready.target"), L(""),
                      L("[Service]"), L("Type=oneshot"),
                      <<"ExecStart=", delivery_exec(r)>>,
                      L("RemainAfterExit=yes"), L(""),
                      L("[Install]"), L("WantedBy=secrets-ready.target")>>
        t1 == write_text(tree, <<units, "secrets-ready.target">>, WithNewline(target))
        t2 == write_text(t1, <<scripts, "secrets.manifest">>,
                         WithNewline(Flatten(manifest_line, r.secrets)))
        t3 == chmod(write_text(t2, <<scripts, "receive-secrets.sh">>, WithNewline(receiver)),
                    <<scripts, "receive-secrets.sh">>, "0755")
    IN  IF r.secrets = <<>> THEN Wrote(tree)
        ELSE Wrote(write_text(t3, <<units, "tdx-secrets.service">>, WithNewline(delivery)))

\* lines 56-67: the k-th writer that compile() calls
writer(k, r, tree) ==
    CASE k = 1 -> _write_mkosi_conf(r, tree)
      [] k = 2 -> _write_kernel_config(r, tree)
      [] k = 3 -> _write_repart_configs(r, tree)
      [] k = 4 -> _write_repositories(r, tree)
      [] k = 5 -> _write_skeleton(r, tree)
      [] k = 6 -> _write_build_scripts(r, tree)
      [] k = 7 -> _write_service_units(r, tree)
      [] k = 8 -> _write_files(r, tree)
      [] k = 9 -> _write_templates(r, tree)
      [] k = 10 -> _write_lifecycle_scripts(r, tree)
      [] k = 11 -> _write_boot_scripts(r, tree)
      [] k = 12 -> _write_secrets_delivery(r, tree)

\* the writers from the k-th on; the next one runs unless an earlier one raised
RECURSIVE writers_from(_, _, _)
writers_from(k, r, acc) ==
    IF k > 12 \/ acc.err # NoError THEN acc
    ELSE writers_from(k + 1, r, writer(k, r, acc.tree))

\* lines 53-68: compile() calls the twelve writers in this order
compile(r, tree) == writers_from(1, r, Wrote(tree))

\* the repositories field compile.py reads from the ResolvedImage: no
\* repository is declared
WithRepositories(r) == [repositories |-> <<>>] @@ r

\* run-commands an image declares, one or two for every phase
RunPool ==
    { RunCommand("git submodule update", None, "sync"),
      RunCommand("pip install x", None, "prepare"),
      RunCommand("make", None, "build"),
      RunCommand("echo one", None, "postinst"),
      RunCommand(None, "setup.sh", "postinst"),
      RunCommand("strip /usr/bin/x", None, "finalize"),
      RunCommand("sign image", None, "postoutput"),
      RunCommand("rm -rf out", None, "clean"),
      RunCommand("echo boot", None, "boot"),
      RunCommand("mount /data", None, "boot") }

\* the run-commands that may also be declared inside the profile
ProfilePool == { RunCommand("echo one", None, "postinst") }

ServicePool ==
    { Service("my-prover", "/usr/local/bin/my-prover", <<>>, <<>>, "always", "prover",
              [k \in {} |-> None]),
      Service("agent", "/usr/bin/agent", <<>>, <<>>, "always", None, [k \in {} |-> None]) }

UserPool == { UserEntry("api", TRUE, "/var/lib/api", "/usr/sbin/nologin", <<>>, None) }

SecretPool ==
    { SecretEntry("API_KEY", "key of the upstream API", "/etc/api/key", "api", "0400"),
      SecretEntry("TOKEN", "", "", "root", "0400") }

PartitionPool ==
    { Partition("/", "ext4", "2G", FALSE), Partition("/var", "ext4", "1G", FALSE) }

\* build.py, BuildArtifact: two artifacts of the same name
BuildPool ==
    { [name |-> "my-prover", src |-> "./prover/", output |-> "/usr/local/bin/my-prover",
       builder |-> "go", build_deps |-> <<"golang">>],
      [name |-> "my-prover", src |-> "./prover-c/", output |-> "/usr/local/bin/my-prover",
       builder |-> "script", build_deps |-> <<>>] }

InSequence(x, xs) == \E i \in 1..Len(xs) : xs[i] = x

\* the profile a declaration may be made in, and the --profile arguments
CompileProfile == "dev"

\* the overlay of the profile, empty when the profile was never entered
Overlay(self) ==
    IF CompileProfile \in DOMAIN self._profiles
    THEN self._profiles[CompileProfile] ELSE Profile(CompileProfile)

\* entries declared beyond those of a fresh image
Decls(self) ==
    Len(self._run_commands) + Len(self._services) + Len(self._users)
        + Len(self._secrets) + Len(self._builds) + (Len(self._partitions) - 1)
        + Len(Overlay(self).run_commands) + Len(Overlay(self).services)

\* the base of the image has one more entry in one of its lists
Declare(field, entry) ==
    /\ ~compiler.compiled
    /\ Decls(compiler.image) < MaxDecls
    /\ compiler' = [compiler EXCEPT !.image[field] = Append(@, entry)]
    /\ UNCHANGED <<output, outsideCompile>>

\* the overlay of the profile has one more entry in one of its lists
DeclareInProfile(field, entry) ==
    /\ ~compiler.compiled
    /\ Decls(compiler.image) < MaxDecls
    /\ compiler' =
           [compiler EXCEPT !.image._profiles =
               [n \in DOMAIN @ \cup {CompileProfile} |->
                   IF n = CompileProfile
                   THEN [Overlay(compiler.image) EXCEPT ![field] = Append(@, entry)]
                   ELSE @[n]]]
    /\ UNCHANGED <<output, outsideCompile>>

\* img.sync(...), img.run(...), img.on_boot(...), ... on the base or in the profile
DeclareRun ==
    \E cmd \in RunPool :
        /\ ~InSequence(cmd, compiler.image._run_commands)
        /\ ~InSequence(cmd, Overlay(compiler.image).run_commands)
        /\ Len(compiler.image._run_commands)
               + Len(Overlay(compiler.image).run_commands) < MaxCmds
        /\ \/ Declare("_run_commands", cmd)
           \/ /\ cmd \in ProfilePool
              /\ DeclareInProfile("run_commands", cmd)

\* img.service(...)
DeclareService ==
    \E svc \in ServicePool :
        /\ ~InSequence(svc, compiler.image._services)
        /\ Declare("_services", svc)

\* img.user(...)
DeclareUser ==
    \E u \in UserPool :
        /\ ~InSequence(u, compiler.image._users)
        /\ Declare("_users", u)

\* img.secret(...)
DeclareSecret ==
    \E sec \in SecretPool :
        /\ ~InSequence(sec, compiler.image._secrets)
        /\ Declare("_secrets", sec)

\* one more partition in the list given to img.partitions(...)
DeclarePartition ==
    \E part \in PartitionPool :
        /\ Len(compiler.image._partitions) < 2
        /\ Declare("_partitions", part)

\* img.build(...)
DeclareBuild ==
    \E artifact \in BuildPool :
        /\ Len(compiler.image._builds) < 2
        /\ Declare("_builds", artifact)

\* cli.py, cmd_build: resolved = image.resolve(profile=args.profile), then
\* MkosiCompiler(resolved, out_dir).compile() on an empty output directory
Compile ==
    \E profile \in {None, CompileProfile} :
        /\ ~compiler.compiled
        /\ LET r == WithRepositories(resolve(compiler.image, profile).ret)
               done == compile(r, output)
           IN  /\ output' = done.tree
               /\ compiler' = [compiler EXCEPT !.compiled = TRUE, !.profile = profile,
                                               !.resolved = <<r>>, !.err = done.err,
                                               !.history = <<profile>>]
        /\ UNCHANGED outsideCompile

\* cmd_build run again on the same definition file and the same output
\* directory, with the same or with another --profile: compile() writes into
\* the directory as the earlier run left it (line 55: mkdir(exist_ok=True))
Recompile ==
    \E profile \in {None, CompileProfile} :
        /\ compiler.compiled
        /\ Len(compiler.history) < MaxRuns
        /\ LET r == WithRepositories(resolve(compiler.image, profile).ret)
               done == compile(r, output)
           IN  /\ output' = done.tree
               /\ compiler' = [compiler EXCEPT !.profile = profile,
                                               !.resolved = <<r>>, !.err = done.err,
                                               !.history = Append(@, profile)]
        /\ UNCHANGED outsideCompile

InitCompile ==
    /\ compiler = [image |-> NewImage("my-prover", "debian/bookworm"),
                   profile |-> None, resolved |-> <<>>,
                   compiled |-> FALSE, err |-> NoError, history |-> <<>>]
    /\ output = <<>>
    /\ ImageIdle
    /\ FetchIdle
    /\ GitIdle
    /\ DirhashIdle
    /\ RenderIdle

NextCompile ==
    \/ DeclareRun
    \/ DeclareService
    \/ DeclareUser
    \/ DeclareSecret
    \/ DeclarePartition
    \/ DeclareBuild
    \/ Compile

SpecCompile == InitCompile /\ [][NextCompile]_vars

\* a user program that declares run-commands, services and secrets
NextRecompile ==
    \/ DeclareRun
    \/ DeclareService
    \/ DeclareSecret
    \/ Compile
    \/ Recompile

\* the compiler run up to MaxRuns times on one output directory
SpecRecompile == InitCompile /\ [][NextRecompile]_vars

\* compile() has run to its end
Compiled == compiler.compiled /\ compiler.err = NoError

\* the ResolvedImage that was compiled
R == compiler.resolved[1]

Written(path) == path \in DOMAIN output

\* positions in the file of the lines that belong to the set
Pos(path, lineset) == {k \in 1..Len(output[path].lines) : output[path].lines[k] \in lineset}

HasLine(path, line) == Pos(path, {line}) # {}

\* every line of the first set is above every line of the second
Above(path, first, second) ==
    \A a \in Pos(path, first), b \in Pos(path, second) : a < b

\* the line a run-command is written as
CmdLine(cmd) ==
    IF Truthy(cmd.command) THEN <<cmd.command>> ELSE <<"bash ", "'", cmd.script, "'">>

Targets(r, phase) == \E i \in 1..Len(r.run_commands) : r.run_commands[i].phase = phase

ScriptPhases == {"sync", "prepare", "postinst", "finalize", "postoutput", "clean"}

\* C17: compile writes mkosi.<phase>, for each of sync, prepare, postinst,
\* finalize, postoutput and clean, exactly when some run-command targets the
\* phase or, for postinst, when the image has a service, a user or a secret;
\* an image with a secret whose dest is /etc/api/key gets a mkosi.postinst
\* that contains `mkdir -p /etc/api`.
C17_PhaseScriptsWritten ==
    Compiled =>
        /\ \A phase \in ScriptPhases :
               Written(_PHASE_TO_MKOSI(phase))
                   <=> \/ Targets(R, phase)
                       \/ /\ phase = "postinst"
                          /\ R.services # <<>> \/ R.users # <<>> \/ R.secrets # <<>>
        /\ (\E i \in 1..Len(R.secrets) : R.secrets[i].dest = "/etc/api/key")
               => /\ Written(<<"mkosi.postinst">>)
                  /\ HasLine(<<"mkosi.postinst">>, <<"mkdir -p ", "/etc/api">>)

\* C18: on-boot.sh and tdx-boot-init.service are written exactly when some
\* run-command has phase boot; on-boot.sh holds every boot command, in the
\* order they were declared; no boot command is in any mkosi.<phase> script.
C18_BootScripts ==
    Compiled =>
        /\ Written(OnBootPath) <=> Targets(R, "boot")
        /\ Written(BootUnitPath) <=> Targets(R, "boot")
        /\ \A i \in 1..Len(R.run_commands), j \in 1..Len(R.run_commands) :
               (R.run_commands[i].phase = "boot" /\ R.run_commands[j].phase = "boot")
                   => /\ Cardinality(Pos(OnBootPath, {CmdLine(R.run_commands[i])})) = 1
                      /\ i < j => Above(OnBootPath, {CmdLine(R.run_commands[i])},
                                        {CmdLine(R.run_commands[j])})
        /\ \A phase \in ScriptPhases, i \in 1..Len(R.run_commands) :
               (R.run_commands[i].phase = "boot" /\ Written(_PHASE_TO_MKOSI(phase)))
                   => ~HasLine(_PHASE_TO_MKOSI(phase), CmdLine(R.run_commands[i]))

\* two boot commands in an image with a service: on-boot.sh and the unit
\* exist beside mkosi.postinst
C18_Witness ==
    /\ Compiled
    /\ Cardinality({i \in 1..Len(R.run_commands) : R.run_commands[i].phase = "boot"}) = 2
    /\ R.services # <<>>
    /\ Written(OnBootPath)
    /\ Written(BootUnitPath)
    /\ Written(<<"mkosi.postinst">>)

\* the lines of mkosi.postinst, group after group in the claimed order: user
\* creation; for every service its user creation, then its enabling; the
\* secret directories; the default target; the postinst run-commands
RECURSIVE ServiceGroups(_)
ServiceGroups(services) ==
    IF services = <<>> THEN <<>>
    ELSE LET svc == Head(services) IN
         <<IF Truthy(svc.user)
           THEN {<<"id -u ", svc.user,
                   " &>/dev/null || useradd -r -s /usr/sbin/nologin ", svc.user>>}
           ELSE {},
           {<<"systemctl enable ", svc.name, ".service">>}>>
         \o ServiceGroups(Tail(services))

PostinstGroups ==
    <<UNION {{to_commands(R.users[i])[k] : k \in 1..Len(to_commands(R.users[i]))} :
               i \in 1..Len(R.users)}>>
    \o ServiceGroups(R.services)
    \o <<{<<"mkdir -p ", parent(R.secrets[i].dest)>> :
            i \in {k \in 1..Len(R.secrets) : R.secrets[k].dest # ""}},
         {<<"systemctl set-default ", R.default_target>>},
         {CmdLine(R.run_commands[i]) :
            i \in {k \in 1..Len(R.run_commands) : R.run_commands[k].phase = "postinst"}}>>

\* C19: in mkosi.postinst the statements come in this order: the user
\* creation commands; for each service its user creation and its `systemctl
\* enable`; `mkdir -p` of each secret's parent directory; `systemctl
\* set-default <default_target>`; the postinst run-commands.  Every one of
\* them is there and no run-command is above a statement of the preamble.
C19_PostinstOrder ==
    (Compiled /\ Written(<<"mkosi.postinst">>)) =>
        /\ \A g \in 1..Len(PostinstGroups) :
               \A line \in PostinstGroups[g] : HasLine(<<"mkosi.postinst">>, line)
        /\ \A g \in 1..Len(PostinstGroups), h \in 1..Len(PostinstGroups) :
               g < h => Above(<<"mkosi.postinst">>, PostinstGroups[g], PostinstGroups[h])
        /\ Cardinality(Pos(<<"mkosi.postinst">>,
                           {<<"systemctl set-default ", R.default_target>>})) = 1

\* a user, a service with its own user, a secret with a dest and a postinst
\* run-command, compiled into mkosi.postinst
C19_Witness ==
    /\ Compiled
    /\ R.users # <<>>
    /\ \E i \in 1..Len(R.services) : R.services[i].user # None
    /\ \E i \in 1..Len(R.secrets) : R.secrets[i].dest = "/etc/api/key"
    /\ Targets(R, "postinst")
    /\ HasLine(<<"mkosi.postinst">>, <<"mkdir -p ", "/etc/api">>)

\* paths of the tree below the directory
FilesIn(dir) == {path \in DOMAIN output : path[1] = dir}

\* the two digits of position i, 0 <= i < 10, counted from 0
TwoDigit(i) == <<"0", Digits[i + 1]>>

\* C20: the partition at position i and the build artifact at position i are
\* written to files whose names begin with the zero-padded i, so that distinct
\* positions give distinct files; in every phase script the commands come in
\* the order of resolved.run_commands, the entries of the base before those of
\* the resolved profile.
C20_OutputsFollowInputOrder ==
    Compiled =>
        /\ \A i \in 1..Len(R.partitions) :
               LET path == <<"mkosi.repart/">> \o TwoDigit(i - 1)
                           \o <<"-", repart_label(R.partitions[i].mountpoint), ".conf">>
               IN  /\ Written(path)
                   /\ HasLine(path, <<"SizeMinBytes=", R.partitions[i].size>>)
        /\ Cardinality(FilesIn("mkosi.repart/")) = Len(R.partitions)
        /\ \A i \in 1..Len(R.builds) :
               LET path == <<"mkosi.build.d/">> \o TwoDigit(i - 1)
                           \o <<"-", R.builds[i].name, ".sh">>
               IN  /\ Written(path)
                   /\ HasLine(path, <<"cd ", "'", R.builds[i].src, "'">>)
        /\ Cardinality(FilesIn("mkosi.build.d/")) = Len(R.builds)
        /\ \A i \in 1..Len(R.run_commands), j \in 1..Len(R.run_commands) :
               (i < j /\ R.run_commands[i].phase = R.run_commands[j].phase
                      /\ R.run_commands[i].phase \in ScriptPhases)
                   => LET path == _PHASE_TO_MKOSI(R.run_commands[i].phase) IN
                      /\ HasLine(path, CmdLine(R.run_commands[i]))
                      /\ HasLine(path, CmdLine(R.run_commands[j]))
                      /\ Above(path, {CmdLine(R.run_commands[i])},
                               {CmdLine(R.run_commands[j])})
        /\ compiler.profile = CompileProfile =>
               \A i \in 1..Len(compiler.image._run_commands),
                  j \in 1..Len(Overlay(compiler.image).run_commands) :
                   LET base == compiler.image._run_commands[i]
                       over == Overlay(compiler.image).run_commands[j]
                   IN  (base.phase = over.phase /\ base.phase \in ScriptPhases)
                           => /\ HasLine(_PHASE_TO_MKOSI(base.phase), CmdLine(over))
                              /\ Above(_PHASE_TO_MKOSI(base.phase),
                                       {CmdLine(base)}, {CmdLine(over)})

\* two partitions with the same mount point and a build artifact, and a
\* postinst command of the profile declared before the postinst script of the
\* base: 00-root.conf and 01-root.conf, the base command above the profile's
C20_Witness ==
    /\ Compiled
    /\ compiler.profile = CompileProfile
    /\ Len(R.partitions) = 2
    /\ R.partitions[1].mountpoint = R.partitions[2].mountpoint
    /\ Written(<<"mkosi.repart/", "0", "1", "-", "root", ".conf">>)
    /\ Written(<<"mkosi.build.d/", "0", "0", "-", "my-prover", ".sh">>)
    /\ Len(Overlay(compiler.image).run_commands) = 1
    /\ Len(compiler.image._run_commands) = 1
    /\ Above(<<"mkosi.postinst">>, {<<"bash ", "'", "setup.sh", "'">>}, {<<"echo one">>})
    /\ HasLine(<<"mkosi.postinst">>, <<"echo one">>)
    /\ HasLine(<<"mkosi.postinst">>, <<"bash ", "'", "setup.sh", "'">>)

(***************************************************************************)
(* Part 6: the invariants of the image and of the compiled tree            *)
(***************************************************************************)
\* the partitions of a list that are mounted at "/"
RootPartitions(parts) == {i \in 1..Len(parts) : parts[i].mountpoint = "/"}

\* C21: in every image state that builder calls reach, exactly one partition
\* has mountpoint "/" (Image.partitions stores whatever list it is given, so
\* this is violated by a list without a root partition)
C21_OneRootPartition == Cardinality(RootPartitions(img._partitions)) = 1

\* the profiles of the compiler's runs so far on the output directory
History == compiler.history

ManifestPath == <<"mkosi.extra/usr/local/lib/tdx/", "secrets.manifest">>

\* the four files of the secrets delivery
DeliveryPaths ==
    { ManifestPath,
      <<"mkosi.extra/usr/local/lib/tdx/", "receive-secrets.sh">>,
      <<"mkosi.extra/etc/systemd/system/", "tdx-secrets.service">>,
      <<"mkosi.extra/etc/systemd/system/", "secrets-ready.target">> }

\* the text occurs in the compiled tree: as a piece of a path or of a line
Occurs(text) ==
    \E path \in DOMAIN output :
        \/ \E k \in 1..Len(path) : path[k] = text
        \/ \E n \in 1..Len(output[path].lines) :
               \E k \in 1..Len(output[path].lines[n]) : output[path].lines[n][k] = text

\* C23: the four delivery files are written exactly when a secret is
\* declared; the manifest holds one line per secret, in declaration order,
\* made of name, dest, owner and mode separated by tabs, and ends with a
\* newline; the description of a secret occurs nowhere in the tree
C23_SecretsManifest ==
    Compiled =>
        /\ R.secrets # <<>> => DeliveryPaths \subseteq DOMAIN output
        /\ R.secrets = <<>> => DeliveryPaths \cap DOMAIN output = {}
        /\ R.secrets # <<>> =>
               /\ Len(output[ManifestPath].lines) = Len(R.secrets) + 1
               /\ output[ManifestPath].lines[Len(R.secrets) + 1] = <<"">>
               /\ \A i \in 1..Len(R.secrets) :
                      output[ManifestPath].lines[i]
                          = <<R.secrets[i].name, "\t", R.secrets[i].dest, "\t",
                              R.secrets[i].owner, "\t", R.secrets[i].mode>>
        /\ \A i \in 1..Len(R.secrets) :
               R.secrets[i].description # "" => ~Occurs(R.secrets[i].description)

\* two secrets, the second one with a description, beside a service
C23_Witness ==
    /\ Compiled
    /\ Len(R.secrets) = 2
    /\ R.secrets[2].description # ""
    /\ R.services # <<>>
    /\ Written(ManifestPath)

(***************************************************************************)
(* Part 7: the build verb, cmd_build and load_tdxfile of cli.py            *)
(***************************************************************************)
\* invocations of the verb
MaxBuilds == 2

\* the definition files on disk: what loading each one meets
TdxFiles ==
    [k \in {"missing.py", "Makefile", "broken.py", "empty.py", "TDXfile.py"} |->
        CASE k = "missing.py" -> "not found"
          [] k = "Makefile" -> "no loader"
          [] k = "broken.py" -> "raises"
          [] k = "empty.py" -> "no image"
          [] k = "TDXfile.py" -> "image"]

\* the values of --profile, --emit-mkosi and --mkosi-override
ProfileArgs == {None, "dev"}

EmitArgs == {None, "out"}

OverrideArgs == {None, "override", "no-conf"}

\* the directories given to --mkosi-override that hold an mkosi.conf
OverrideConf == [d \in {"override"} |-> <<L("[Content]"), L("Packages=vim"), L("")>>]

\* what the assembler may return
ReturnCodes == {0, 1, 2}

\* the process has not exited / has exited with the code
Running == <<>>

Exited(code) == <<code>>

\* line 22, 27, 40: print(...); sys.exit(1), and an exception nobody catches
\* (the interpreter prints the traceback and exits with 1)
SysExit(code) == [cli EXCEPT !.pc = "exited", !.exit = Exited(code)]

\* lines 17-48: what load_tdxfile does with the file
load_tdxfile(path) ==
    IF TdxFiles[path] = "not found" THEN Raises(None, "SystemExit(1)")
    ELSE IF TdxFiles[path] = "no loader" THEN Raises(None, "SystemExit(1)")
    ELSE IF TdxFiles[path] = "raises" THEN Raises(None, "Exception")
    ELSE IF TdxFiles[path] = "no image" THEN Raises(None, "SystemExit(1)")
    ELSE Returns(None, NewImage("my-prover", "debian/bookworm"))

\* tdx build <tdxfile> [--profile P] [--emit-mkosi DIR] [--mkosi-override DIR]
BuildCall ==
    \E path \in DOMAIN TdxFiles, profile \in ProfileArgs,
       emit \in EmitArgs, override \in OverrideArgs :
        /\ cli.pc \in {"idle", "exited"}
        /\ cli.nbuild < MaxBuilds
        /\ cli' = [pc |-> "load", tdxfile |-> path, profile |-> profile,
                   emit_mkosi |-> emit, mkosi_override |-> override,
                   image |-> <<>>, resolved |-> <<>>, tree |-> <<>>,
                   assembler |-> <<>>, exit |-> Running, nbuild |-> cli.nbuild + 1]
        /\ UNCHANGED outsideBuild

\* line 53: image = load_tdxfile(args.tdxfile)
BuildLoad ==
    /\ cli.pc = "load"
    /\ LET loaded == load_tdxfile(cli.tdxfile)
       IN  cli' = IF loaded.err # NoError THEN SysExit(1)
                  ELSE [cli EXCEPT !.pc = "resolve", !.image = <<loaded.ret>>]
    /\ UNCHANGED outsideBuild

\* line 54: resolved = image.resolve(profile=args.profile)
BuildResolve ==
    /\ cli.pc = "resolve"
    /\ LET done == resolve(cli.image[1], cli.profile)
       IN  cli' = IF done.err # NoError THEN SysExit(1)
                  ELSE [cli EXCEPT !.pc = "compile",
                                   !.resolved = <<WithRepositories(done.ret)>>]
    /\ UNCHANGED outsideBuild

\* lines 56-67: the output directory, compile(), and the return of --emit-mkosi
BuildCompile ==
    /\ cli.pc = "compile"
    /\ LET done == compile(cli.resolved[1], <<>>)
       IN  cli' = IF done.err # NoError THEN SysExit(1)
                  ELSE IF cli.emit_mkosi # None
                  THEN [cli EXCEPT !.pc = "exited", !.tree = done.tree, !.exit = Exited(0)]
                  ELSE [cli EXCEPT !.pc = "override", !.tree = done.tree]
    /\ UNCHANGED outsideBuild

\* lines 69-76: the override's mkosi.conf is appended to the generated one
BuildOverride ==
    /\ cli.pc = "override"
    /\ cli' = IF cli.mkosi_override # None /\ cli.mkosi_override \in DOMAIN OverrideConf
              THEN [cli EXCEPT !.pc = "mkosi",
                        !.tree[<<"mkosi.conf">>].lines =
                            @ \o <<L(""), L("# --- User overrides ---")>>
                              \o OverrideConf[cli.mkosi_override]]
              ELSE [cli EXCEPT !.pc = "mkosi"]
    /\ UNCHANGED outsideBuild

\* lines 78-88: the assembler runs; a non-zero return code ends in sys.exit(1)
BuildMkosi ==
    \E returncode \in ReturnCodes :
        /\ cli.pc = "mkosi"
        /\ cli' = IF returncode # 0
                  THEN [cli EXCEPT !.pc = "exited", !.assembler = <<returncode>>,
                                   !.exit = Exited(1)]
                  ELSE [cli EXCEPT !.pc = "exited", !.assembler = <<returncode>>,
                                   !.exit = Exited(0)]
        /\ UNCHANGED outsideBuild

InitBuild ==
    /\ cli = [pc |-> "idle", tdxfile |-> None, profile |-> None, emit_mkosi |-> None,
              mkosi_override |-> None, image |-> <<>>, resolved |-> <<>>, tree |-> <<>>,
              assembler |-> <<>>, exit |-> Running, nbuild |-> 0]
    /\ ImageIdle
    /\ FetchIdle
    /\ GitIdle
    /\ DirhashIdle
    /\ CompileIdle
    /\ ScriptIdle
    /\ KernelIdle

NextBuild ==
    \/ BuildCall
    \/ BuildLoad
    \/ BuildResolve
    \/ BuildCompile
    \/ BuildOverride
    \/ BuildMkosi

SpecBuild == InitBuild /\ [][NextBuild]_vars

\* C24: the verb exits 0 when load, resolve, compile and the assembler all
\* succeed, 1 when the definition file is missing, cannot be loaded or holds
\* no Image, and with the assembler's own code when that is not zero; with
\* --emit-mkosi the assembler is not run
C24_BuildExitCodes ==
    cli.pc = "exited" =>
        /\ TdxFiles[cli.tdxfile] # "image" => cli.exit = Exited(1)
        /\ cli.emit_mkosi # None => cli.assembler = <<>>
        /\ (TdxFiles[cli.tdxfile] = "image" /\ cli.emit_mkosi # None)
               => cli.exit = Exited(0)
        /\ cli.assembler # <<>> => cli.exit = cli.assembler

(***************************************************************************)
(* Part 8: BuildArtifact.to_build_script of build.py                       *)
(***************************************************************************)
\* the builder kinds of the artifacts rendered: the four of build.py, the
\* kind "c" and a kind nobody knows
BuilderKinds == {"go", "rust", "dotnet", "c", "script", "zig"}

Artifacts ==
    [name : {"my-prover", "tool"}, src : {"./prover/"},
     output : {"/usr/local/bin/my-prover", "/opt/tool"},
     builder : BuilderKinds, build_deps : {<<>>, <<"gcc">>}]

\* artifact.to_build_script()
Render ==
    /\ build_script = <<>>
    /\ build_script' = <<[rendered |-> to_build_script(build_artifact), compiled |-> <<>>]>>
    /\ UNCHANGED <<build_artifact, outsideScript>>

\* img.build(artifact), resolve and compile into a new directory
CompileArtifact ==
    /\ build_script # <<>>
    /\ build_script[1].compiled = <<>>
    /\ LET image == [NewImage("my-prover", "debian/bookworm")
                        EXCEPT !._builds = <<build_artifact>>]
           done == compile(WithRepositories(resolve(image, None).ret), <<>>)
       IN  build_script' =
               <<[build_script[1] EXCEPT
                     !.compiled = <<[err |-> done.err,
                                     written |-> build_script_path(0, build_artifact)
                                                     \in DOMAIN done.tree]>>]>>
    /\ UNCHANGED <<build_artifact, outsideScript>>

InitScript ==
    /\ build_artifact \in Artifacts
    /\ build_script = <<>>
    /\ ImageIdle
    /\ FetchIdle
    /\ GitIdle
    /\ DirhashIdle
    /\ CompileIdle
    /\ BuildIdle
    /\ KernelIdle

NextScript ==
    \/ Render
    \/ CompileArtifact

SpecScript == InitScript /\ [][NextScript]_vars

\* the builder kinds the specification recognizes
RecognizedKinds == {"go", "rust", "dotnet", "c", "script"}

\* C25: rendering an artifact's script, and therefore compile, fails with
\* UnknownBuilder exactly when the builder kind is outside {go, rust, dotnet,
\* c, script}; for every kind of the set a script is rendered
C25_UnknownBuilderOnly ==
    build_script # <<>> =>
        /\ build_script[1].rendered.err = UnknownBuilder
               <=> build_artifact.builder \notin RecognizedKinds
        /\ build_script[1].rendered.err = NoError
               <=> build_artifact.builder \in RecognizedKinds
        /\ build_script[1].compiled # <<>> =>
               /\ build_script[1].compiled[1].err = build_script[1].rendered.err
               /\ build_script[1].compiled[1].written
                      <=> build_artifact.builder \in RecognizedKinds

(***************************************************************************)
(* Part 9: Kernel.tdx and Kernel.to_kconfig of kernel.py                   *)
(* A text is the sequence of its characters ("CONFIG_" counts as one).     *)
(***************************************************************************)
CONFIG_DMI == <<"CONFIG_", "D", "M", "I">>

CONFIG_EFI == <<"CONFIG_", "E", "F", "I">>

CONFIG_EFI_STUB == <<"CONFIG_", "E", "F", "I", "_", "S", "T", "U", "B">>

\* the keys of the kernels rendered, in the order sorted() gives them
KernelKeys == <<CONFIG_DMI, CONFIG_EFI, CONFIG_EFI_STUB>>

KeySet == {KernelKeys[i] : i \in 1..Len(KernelKeys)}

\* lines 10-32: _TDX_KCONFIG_DEFAULTS, the entries of these keys
_TDX_KCONFIG_DEFAULTS == [k \in KeySet |-> <<"y">>]

\* f"{key}={val}"
Assignment(key, val) == key \o <<"=">> \o val

\* line 84: key in content
contains(key, text) ==
    \E i \in 0..(Len(text) - Len(key)) : SubSeq(text, i + 1, i + Len(key)) = key

\* the lines of a text: the pieces between its "\n"
RECURSIVE split_lines(_)
split_lines(text) ==
    IF \A i \in 1..Len(text) : text[i] # "\n" THEN <<text>>
    ELSE LET n == CHOOSE i \in 1..Len(text) :
                      text[i] = "\n" /\ \A j \in 1..(i - 1) : text[j] # "\n"
         IN  <<SubSeq(text, 1, n - 1)>> \o split_lines(SubSeq(text, n + 1, Len(text)))

RECURSIVE join_lines(_)
join_lines(lines) ==
    IF Len(lines) = 1 THEN lines[1]
    ELSE lines[1] \o <<"\n">> \o join_lines(Tail(lines))

\* the line starts with "key="
assigns(line, key) ==
    /\ Len(line) > Len(key)
    /\ SubSeq(line, 1, Len(key) + 1) = key \o <<"=">>

\* line 86: re.sub(rf"^{re.escape(key)}=.*$", line, content, flags=re.MULTILINE)
re_sub(key, line, text) ==
    LET lines == split_lines(text)
    IN  join_lines([n \in 1..Len(lines) |->
                       IF assigns(lines[n], key) THEN line ELSE lines[n]])

\* lines 81-88: the loop over extra_config.items(), the first n items done
RECURSIVE overlay(_, _, _)
overlay(text, extra_config, n) ==
    IF n = 0 THEN text
    ELSE LET before == overlay(text, extra_config, n - 1)
             key == extra_config[n][1]
             line == Assignment(key, extra_config[n][2])
         IN  IF contains(key, before) THEN re_sub(key, line, before)
             ELSE before \o <<"\n">> \o line

\* lines 91-92: the sorted "k=v" lines of config, each ended by "\n"
RECURSIVE sorted_lines(_, _)
sorted_lines(config, n) ==
    IF n = 0 THEN <<>>
    ELSE sorted_lines(config, n - 1)
         \o (IF KernelKeys[n] \in DOMAIN config
             THEN Assignment(KernelKeys[n], config[KernelKeys[n]]) \o <<"\n">>
             ELSE <<>>)

\* lines 76-92
to_kconfig(self) ==
    IF self.config_file # <<>>
    THEN overlay(self.config_file[1], self.extra_config, Len(self.extra_config))
    ELSE sorted_lines(self.config, Len(KernelKeys))

\* lines 51-74: Kernel.tdx; config_file stands for the text of the file
tdx(config_file, extra_config) ==
    [version |-> "6.8",
     config |-> [k \in KeySet |->
                    IF \E n \in 1..Len(extra_config) : extra_config[n][1] = k
                    THEN extra_config[CHOOSE n \in 1..Len(extra_config) :
                                          extra_config[n][1] = k][2]
                    ELSE _TDX_KCONFIG_DEFAULTS[k]],
     config_file |-> config_file,
     extra_config |-> extra_config]

\* the texts of the base config files: each key unassigned, =y or =n
RECURSIVE FileText(_, _)
FileText(values, n) ==
    IF n = 0 THEN <<>>
    ELSE FileText(values, n - 1)
         \o (IF values[KernelKeys[n]] = "-" THEN <<>>
             ELSE Assignment(KernelKeys[n], <<values[KernelKeys[n]]>>) \o <<"\n">>)

ConfigFiles == {FileText(values, Len(KernelKeys)) : values \in [KeySet -> {"-", "y", "n"}]}

\* the extra_config dicts: each key absent, "y" or "m"
RECURSIVE ExtraItems(_, _)
ExtraItems(values, n) ==
    IF n = 0 THEN <<>>
    ELSE ExtraItems(values, n - 1)
         \o (IF values[KernelKeys[n]] = "-" THEN <<>>
             ELSE <<<<KernelKeys[n], <<values[KernelKeys[n]]>>>>>>)

ExtraConfigs == {ExtraItems(values, Len(KernelKeys)) : values \in [KeySet -> {"-", "y", "m"}]}

\* kernel.to_kconfig()
ToKconfig ==
    /\ kconfig = <<>>
    /\ kconfig' = <<to_kconfig(tdx_kernel)>>
    /\ UNCHANGED <<tdx_kernel, outsideKernel>>

InitKernel ==
    /\ tdx_kernel \in {tdx(f, e) : f \in {<<>>} \cup {<<t>> : t \in ConfigFiles},
                                   e \in ExtraConfigs}
    /\ kconfig = <<>>
    /\ ImageIdle
    /\ FetchIdle
    /\ GitIdle
    /\ DirhashIdle
    /\ CompileIdle
    /\ BuildIdle
    /\ ScriptIdle

NextKernel == ToKconfig

SpecKernel == InitKernel /\ [][NextKernel]_vars

\* the lines of the text that assign the key, in their order
AssignmentsOf(text, key) == SelectSeq(split_lines(text), LAMBDA line : assigns(line, key))

\* the keys of an extra_config
ExtraKeys(extra_config) == {extra_config[n][1] : n \in 1..Len(extra_config)}

\* C26: for a kernel with a base config file the rendered .config holds, for
\* every key k of extra_config, the line k=extra_config[k] as the only
\* assignment of k, also when k is a part of another key of the file, and
\* the assignments of the other keys are those of the file
C26_ExtraConfigOverlaysFile ==
    (kconfig # <<>> /\ tdx_kernel.config_file # <<>>) =>
        /\ \A n \in 1..Len(tdx_kernel.extra_config) :
               LET key == tdx_kernel.extra_config[n][1]
                   found == AssignmentsOf(kconfig[1], key)
               IN  /\ found # <<>>
                   /\ \A i \in 1..Len(found) :
                          found[i] = Assignment(key, tdx_kernel.extra_config[n][2])
        /\ \A key \in KeySet \ ExtraKeys(tdx_kernel.extra_config) :
               AssignmentsOf(kconfig[1], key) = AssignmentsOf(tdx_kernel.config_file[1], key)

(***************************************************************************)
(* Part 10: the fetchers under concurrency and with a damaged cache        *)
(***************************************************************************)
\* C27: under every interleaving of concurrent fetch calls, also when the
\* cache starts with a damaged file, no step deletes a verified file that a
\* call installed at fetch/<h>; a call that returns does so while a file
\* with SHA-256 h is at the returned path; and a call raises nothing but
\* HashMismatch or FetchFailed
C27_ConcurrentFetchKeepsVerified ==
    [][/\ \A h \in Hashes :
              (Verified(cache, h) /\ cache[h][1].by[1] \in procs) => cache'[h] # <<>>
       /\ \A p \in procs :
              /\ (Ends(p) /\ result'[p].status = "returned")
                     => Verified(cache', result'[p].path)
              /\ (Ends(p) /\ result'[p].status = "raised")
                     => result'[p].error \in {HashMismatch, FetchFailed}]_vars

\* C28: after compile(r, D) the files under D are exactly those r calls for,
\* also when D held the output of an earlier compile of another resolved
\* image (compile deletes nothing, so a script of the earlier image stays)
C28_NoStaleFiles ==
    Compiled => DOMAIN output = DOMAIN compile(R, <<>>).tree

\* the phases a RunCommand may have
ClosedPhases == ScriptPhases \cup {"build", "boot"}

\* the script a run-command of the phase belongs in
PhaseScript(phase) ==
    IF phase = "boot" THEN OnBootPath
    ELSE IF phase = "build" THEN <<"mkosi.build">>
    ELSE _PHASE_TO_MKOSI(phase)

\* C29: every run-command of the resolved image is emitted into exactly one
\* generated script, mkosi.<phase> of its own phase or on-boot.sh for boot;
\* none is dropped (a command of phase build is: compile has no script for it)
C29_EveryCommandEmitted ==
    Compiled =>
        \A i \in 1..Len(R.run_commands) :
            LET cmd == R.run_commands[i]
            IN  cmd.phase \in ClosedPhases =>
                    \A phase \in ClosedPhases :
                        (/\ Written(PhaseScript(phase))
                         /\ HasLine(PhaseScript(phase), CmdLine(cmd)))
                            <=> phase = cmd.phase

\* C30: when git-trees/<sha256> exists with another dirhash and the tree
\* checked out at the ref hashes to sha256, fetch_git succeeds and leaves a
\* tree with dirhash sha256 at git-trees/<sha256> (the rename onto the stale
\* directory fails instead, on this call and on every retry)
C30_StaleTreeIsReplaced ==
    [][(/\ git.pc = "rename"
        /\ git' # git
        /\ git.trees[git.req.sha256] # <<>>)
           => /\ git'.result = Returned(git.req.sha256, TRUE)
              /\ git'.trees[git.req.sha256] # <<>>
              /\ _dirhash(git'.trees[git.req.sha256][1].listing) = git.req.sha256]_vars

====
